---------------------------- MODULE Spec2Model ----------------------------
(***************************************************************************)
(* SantaMacro (src/src/macro.py): the minimal-mode tick loop of            *)
(* SantaMacro.run, the hotkey handler SantaMacro._on_key that runs on the  *)
(* keyboard-listener thread, the attack sequence player as the tick loop   *)
(* sees it (CustomAttackManager / ActionPlayer, src/src/action_system.py)  *)
(* and the input sink (pydirectinput) as the set of arrow keys that are    *)
(* physically down.                                                        *)
(*                                                                         *)
(* Granularity.  One loop iteration of run() is five steps, cut where the  *)
(* code re-reads the run flag or calls out (frame grab, detector call):    *)
(*   loop -> gate -> detect -> stopcheck -> body                           *)
(* _on_key is cut after the player stop (stop_attack joins the player      *)
(* thread for up to 1 s, and every pydirectinput call sleeps, so the tick  *)
(* loop does run inside the handler) and after the arrow release.  Steps   *)
(* of the two threads interleave freely.                                   *)
(*                                                                         *)
(* Time.  Wall-clock time is counted in whole seconds.  The model keeps    *)
(* phase_elapsed = time.time() - attack_phase_start (saturating at the     *)
(* largest phase duration) instead of the two absolute values, and the     *)
(* frame differences frames_since_detection, frames_since_search and       *)
(* frames_since_cleanup instead of _debug_log_counter and the frame        *)
(* numbers it is compared with: the code only reads the differences.       *)
(*                                                                         *)
(* Left out: _paused (never set true); the hotkey debounce (two presses of *)
(* one key less than 500 ms apart); the cursor aim point                   *)
(* (_position_history, _predicted_position), overlay, webhooks, logging.   *)
(* _mouse_down and _x_key_down are kept: nothing in minimal mode sets them.*)
(* best_santa is a local of run() that every iteration sets to None before *)
(* the detector call (line 1987); the model clears it where the iteration  *)
(* ends.  Spec is the program with a custom attack sequence configured and *)
(* enabled, under the toggle, start and stop keys; the shutdown key, the   *)
(* way out of run() and the exceptions raised inside run() are part of     *)
(* SpecFaults only.                                                        *)
(***************************************************************************)
EXTENDS Integers, Sequences, FiniteSets, TLC

VARIABLES
    self,        \* the SantaMacro instance fields, the player's playing flag, the input sink, history
    pc,          \* position of the tick loop inside run()
    best_santa,  \* run()'s local best_santa: None or a box <<x1, y1, x2, y2>>
    hk,          \* position of the listener thread inside _on_key
    last,        \* what the last step of the tick body was and what it started from (history)
    det_run      \* how many tick bodies in a row had a detection, up to required_detections (history)

vars == <<self, pc, best_santa, hk, last, det_run>>

\* Python's None, for a box or a position, and for a key name
None == <<>>
NoKey == "none"

--------------------------------------------------------------------------
(* Bounds of the model *)

\* longest wall-clock advance, in seconds, between two loop iterations
MaxDt == 1

\* _cleanup_interval (100 frames in the source), scaled down
CleanupInterval == 2

\* _detection_grace_frames (20 frames in the source), scaled down
GraceFrames == 1

\* _max_movement_history (10 positions in the source), scaled down
MaxMovementHistory == 5

\* the configured phase durations load_ms, shoot_ms and cooldown_ms, in
\* seconds (1000, 5000 and 6000 ms when the configuration gives none)
_get_load_duration == 1
_get_fire_duration == 2
_get_cooldown_duration == 2

--------------------------------------------------------------------------
(* Program constants *)

roi_width == 1000

required_detections == 3
search_skip_frames == 3
movement_check_frames == 5
max_reasonable_jump == 250
_min_movement_pixels == 15
min_santa_width == 40
min_santa_height == 25
max_santa_height == 200
NoDetectionYet == 9999

Min(a, b) == IF a < b THEN a ELSE b
Max(a, b) == IF a > b THEN a ELSE b
Abs(a) == IF a < 0 THEN -a ELSE a

RECURSIVE SeqMax(_)
SeqMax(q) == IF Len(q) = 1 THEN q[1] ELSE Max(q[1], SeqMax(Tail(q)))
RECURSIVE SeqMin(_)
SeqMin(q) == IF Len(q) = 1 THEN q[1] ELSE Min(q[1], SeqMin(Tail(q)))

\* largest duration a phase timer is compared with
ElapsedCap == Max(_get_load_duration, Max(_get_fire_duration, _get_cooldown_duration))


--------------------------------------------------------------------------
(* The input sink and the player, as the macro drives them.               *)
(* s is the record of fields (the variable self); every operator returns  *)
(* the record after the call.  s.evts lists what the current step has     *)
(* emitted so far, in order.                                              *)

Emit(s, kind, what) == [s EXCEPT !.evts = Append(@, <<kind, what>>)]

\* pydirectinput.keyUp(k)
keyUp(s, k) == Emit([s EXCEPT !.keys_down = @ \ {k}], "keyUp", k)

\* pydirectinput.keyDown(k)
keyDown(s, k) == Emit([s EXCEPT !.keys_down = @ \cup {k}], "keyDown", k)

\* pydirectinput.press(k): a tap, nothing stays down
press(s, k) == Emit(s, "press", k)

\* _on_key, lines 1847-1854: the resets only the toggle key makes
HandlerReset(s) ==
    Emit([s EXCEPT !.search_state = "idle",
                   !.attack_phase = "idle",
                   !.attack_committed = FALSE,
                   !._consecutive_detections = 0,
                   !.frames_since_detection = NoDetectionYet,
                   !._last_santa_center = None,
                   !._detection_movement_history = <<>>,
                   !.reset_due = FALSE],
         "reset", "idle")

\* run(): self.attack_phase = p.  When s.reset_due, the toggle handler's
\* resets run on the listener thread just before this assignment.
SetPhase(s, p) ==
    LET a == IF s.reset_due THEN HandlerReset(s) ELSE s
    IN  Emit([a EXCEPT !.attack_phase = p], "phase", p)

\* ActionPlayer.play_sequence, reached through play_custom_attack(loop=True):
\* refuses while playing, else starts the playback thread, whose first
\* statement sets playing
play_custom_attack(s) ==
    IF s.player_playing \/ ~s.has_custom_sequence
    THEN s
    ELSE Emit([s EXCEPT !.player_playing = TRUE], "player", "play")

\* CustomAttackManager.stop_attack -> ActionPlayer.stop_playback
stop_attack(s) == Emit([s EXCEPT !.player_playing = FALSE], "player", "stop")

\* SantaMacro._send_attack_input
_send_attack_input(s, down) ==
    IF ~s.has_custom_sequence THEN s
    ELSE IF down /\ ~s.player_playing THEN play_custom_attack(s)
    ELSE IF ~down /\ s.player_playing THEN stop_attack(s)
    ELSE s

\* SantaMacro._native_key_release (SendInput KEYEVENTF_KEYUP)
_native_key_release(s, k) == Emit([s EXCEPT !.keys_down = @ \ {k}], "nativeUp", k)

\* SantaMacro._force_release_all_arrows: native release of both arrows,
\* pydirectinput.keyUp of both, then the bookkeeping is cleared (history:
\* no iteration has completed since this forced release)
_force_release_all_arrows(s) ==
    LET a == keyUp(keyUp(_native_key_release(_native_key_release(s, "left"),
                                             "right"), "left"), "right")
    IN  [a EXCEPT !.current_arrow_key = NoKey,
                  !.is_holding_arrow = FALSE,
                  !.camera_keys_pressed = {},
                  !.iterations_since_cleanup = 0]

ReleaseCurrentArrowKeepFlag(s) ==
    IF s.current_arrow_key = NoKey THEN s
    ELSE LET a == keyUp(s, s.current_arrow_key)
         IN  [a EXCEPT !.camera_keys_pressed = @ \ {s.current_arrow_key},
                       !.current_arrow_key = NoKey]

\* "if self.current_arrow_key: keyUp(it); discard it; current_arrow_key = None;
\*  is_holding_arrow = False" (under arrow_lock)
ReleaseCurrentArrow(s) ==
    IF s.current_arrow_key = NoKey THEN s
    ELSE LET a == keyUp(s, s.current_arrow_key)
         IN  [a EXCEPT !.camera_keys_pressed = @ \ {s.current_arrow_key},
                       !.current_arrow_key = NoKey,
                       !.is_holding_arrow = FALSE]

SteerToNoRelease(s, k) ==
    IF s.current_arrow_key = k THEN s
    ELSE [keyDown(s, k) EXCEPT !.camera_keys_pressed = @ \cup {k},
                               !.current_arrow_key = k,
                               !.is_holding_arrow = TRUE]

\* "if self.current_arrow_key != k: release the held key, keyDown(k),
\*  add k, current_arrow_key = k, is_holding_arrow = True" (under arrow_lock)
SteerTo(s, k) ==
    IF s.current_arrow_key = k THEN s
    ELSE LET a == IF s.current_arrow_key # NoKey
                  THEN [keyUp(s, s.current_arrow_key) EXCEPT
                           !.camera_keys_pressed = @ \ {s.current_arrow_key}]
                  ELSE s
             b == keyDown(a, k)
         IN  [b EXCEPT !.camera_keys_pressed = @ \cup {k},
                       !.current_arrow_key = k,
                       !.is_holding_arrow = TRUE]

\* the search hold: "if not is_holding_arrow or current_arrow_key != 'left':
\*  release any other arrow, keyDown('left'), camera_keys_pressed = {'left'}"
SearchHoldLeft(s) ==
    IF s.is_holding_arrow /\ s.current_arrow_key = "left" THEN s
    ELSE LET a == IF s.current_arrow_key # NoKey /\ s.current_arrow_key # "left"
                  THEN keyUp(s, s.current_arrow_key)
                  ELSE s
             b == keyDown(a, "left")
         IN  [b EXCEPT !.camera_keys_pressed = {"left"},
                       !.is_holding_arrow = TRUE,
                       !.current_arrow_key = "left"]

\* self._debug_log_counter += 1, seen through the frame differences
NextFrame(s) ==
    [s EXCEPT !.frames_since_detection =
                  IF @ = NoDetectionYet THEN @ ELSE Min(@ + 1, GraceFrames + 1),
              !.frames_since_search = Min(@ + 1, search_skip_frames),
              !.frames_since_cleanup = Min(@ + 1, CleanupInterval)]


--------------------------------------------------------------------------
(* The detector call and the candidate filter of run(), lines 1989-2094   *)

\* int(roi.width * pct / 100)
Frac(pct) == (roi_width * pct) \div 100

\* what the detector may report in one frame: a 40x40 box in the middle of
\* the view or at its right edge, and in the middle a box that is too
\* narrow, one that is too tall, and one of aspect 2.75 (too slim only in
\* idle) around the same centre as the 40x40 box
CandidateBoxes ==
    { <<490, 300, 530, 340>>, <<950, 300, 990, 340>>,
      <<490, 300, 520, 340>>, <<490, 300, 530, 510>>, <<490, 265, 530, 375>> }

\* another choice: a 40x40 box at the left edge, in the middle, at the
\* right edge
WideBoxes ==
    { <<50, 300, 90, 340>>, <<490, 300, 530, 340>>, <<950, 300, 990, 340>> }

\* the size, height and aspect-ratio rejections
PassesShapeFilter(s, box) ==
    LET candidate_w == box[3] - box[1]
        candidate_h == box[4] - box[2]
        max_aspect_x10 == IF s.attack_phase # "idle" THEN 30 ELSE 25
    IN  /\ ~(candidate_w < min_santa_width \/ candidate_h < min_santa_height)
        /\ ~(candidate_h > max_santa_height)
        /\ ~(candidate_h * 10 > max_aspect_x10 * candidate_w)

\* the position-jump rejection (only while idle, not searching, camera still)
JumpTooLarge(s, box) ==
    LET candidate_cx == (box[1] + box[3]) \div 2
        skip_validation == s.frames_since_search < search_skip_frames
        camera_is_moving == s.current_arrow_key # NoKey /\ s.is_holding_arrow
    IN  /\ s._last_santa_center # None
        /\ s.search_state = "idle"
        /\ ~skip_validation
        /\ s.attack_phase = "idle"
        /\ ~camera_is_moving
        /\ Abs(candidate_cx - s._last_santa_center[1]) > max_reasonable_jump

\* _detection_movement_history after the append and the pop(0)
PushMovement(h, pos) ==
    LET a == Append(h, pos)
    IN  IF Len(a) > MaxMovementHistory THEN Tail(a) ELSE a

\* max(x_range, y_range) over the movement history
TotalMovement(h) ==
    LET xs == [i \in 1..Len(h) |-> h[i][1]]
        ys == [i \in 1..Len(h) |-> h[i][2]]
    IN  Max(SeqMax(xs) - SeqMin(xs), SeqMax(ys) - SeqMin(ys))

\* one candidate box through the filter: the fields afterwards and best_santa
FilterCandidate(s, box) ==
    LET candidate_cx == (box[1] + box[3]) \div 2
        candidate_cy == (box[2] + box[4]) \div 2
        valid1 == ~JumpTooLarge(s, box)
        tracked == valid1 /\ s.attack_phase = "idle"
        hist1 == IF tracked
                 THEN PushMovement(s._detection_movement_history,
                                   <<candidate_cx, candidate_cy>>)
                 ELSE s._detection_movement_history
        static == /\ tracked
                  /\ Len(hist1) >= movement_check_frames
                  /\ TotalMovement(hist1) < _min_movement_pixels
        s1 == IF static
              THEN [s EXCEPT !._consecutive_detections = 0,
                             !._detection_movement_history = <<>>]
              ELSE [s EXCEPT !._detection_movement_history = hist1]
    IN  IF ~PassesShapeFilter(s, box) THEN [s |-> s, best |-> None]
        ELSE [s |-> s1, best |-> IF valid1 /\ ~static THEN box ELSE None]


--------------------------------------------------------------------------
(* The phase sequencer and camera steering of run(), lines 2115-2707      *)

\* self.attack_phase = p; self.attack_phase_start = current_time
EnterPhase(s, p) == [SetPhase(s, p) EXCEPT !.phase_elapsed = 0]

\* "if custom enabled: if not player.playing: _send_attack_input(down=True);
\*  attack_committed = True" at the two load entry edges
StartCustomAtLoadEntry(s) ==
    IF s.custom_enabled /\ ~s.player_playing
    THEN [_send_attack_input(s, TRUE) EXCEPT !.attack_committed = TRUE]
    ELSE s

InAbortZoneNever(santa_cx) == FALSE

\* lines 2127-2131: the target is too far off-centre for a new attack
InAbortZone(santa_cx) ==
    LET abort_zone_left == Frac(20)
        abort_zone_right == Frac(80)
    IN  santa_cx < abort_zone_left \/ santa_cx > abort_zone_right

\* lines 2117-2185: cooldown over and a detection at hand
CooldownEnd(s, box) ==
    IF ~(s.attack_phase = "cooldown" /\ box # None) THEN s
    ELSE IF ~(s.phase_elapsed >= _get_cooldown_duration) THEN s
    ELSE
      LET w == box[3] - box[1]
          santa_cx == box[1] + w \div 2
      IN  IF InAbortZone(santa_cx)
          THEN LET a == SetPhase(press(s, "1"), "idle")
                   b == [a EXCEPT !._consecutive_detections = 0,
                                  !._detection_movement_history = <<>>]
                   c == ReleaseCurrentArrow(b)
               IN  [c EXCEPT !.search_state = "searching_left"]
          ELSE LET a == press(ReleaseCurrentArrow(s), "1")
                   b == [a EXCEPT !._consecutive_detections = 0]
                   c == [EnterPhase(b, "load") EXCEPT !.attack_committed = FALSE]
               IN  StartCustomAtLoadEntry(c)

StopSearchOnDetectionNever(s) == s

\* lines 2240-2256: a detection ends the camera search
StopSearchOnDetection(s) ==
    IF s.search_state = "idle" THEN s
    ELSE [ReleaseCurrentArrow(s) EXCEPT
             !.search_state = "idle",
             !.frames_since_search = 0,
             !._detection_movement_history = <<>>,
             !._consecutive_detections = 0]

\* lines 2275-2368: repositioning in load/fire, following in cooldown
SteerDuringAttack(s, santa_cx) ==
    IF s.attack_phase \in {"load", "fire"}
    THEN IF santa_cx < Frac(10) THEN SteerTo(s, "left")
         ELSE IF santa_cx > Frac(90) THEN SteerTo(s, "right")
         ELSE ReleaseCurrentArrow(s)
    ELSE IF s.attack_phase = "cooldown"
    THEN LET offset_x == santa_cx - roi_width \div 2
         IN  IF offset_x < -Frac(20) THEN SteerTo(s, "left")
             ELSE IF offset_x > Frac(20) THEN SteerTo(s, "right")
             ELSE ReleaseCurrentArrow(s)
    ELSE s

InSafeZoneAlways(santa_cx) == TRUE

\* lines 2391-2423: can_start_attack survives the safe-zone test
InSafeZone(santa_cx) ==
    LET safe_zone_left == Frac(25)
        safe_zone_right == Frac(75)
    IN  ~(santa_cx < safe_zone_left) /\ ~(santa_cx > safe_zone_right)

\* lines 2425-2454: idle -> load
StartAttack(s) ==
    LET a == _force_release_all_arrows(s)
        b == [EnterPhase(a, "load") EXCEPT !.attack_committed = FALSE]
    IN  StartCustomAtLoadEntry(b)

\* "if not custom enabled: if not _mouse_down and not _x_key_down:
\*  _send_attack_input(down=True)"
TraditionalSpam(s) ==
    IF ~s.custom_enabled /\ ~s._mouse_down /\ ~s._x_key_down
    THEN _send_attack_input(s, TRUE)
    ELSE s

LoadTickByCount(s) == EnterPhase(TraditionalSpam(s), "fire")

\* lines 2464-2486: the load phase of a tick with a detection
LoadTick(s) ==
    LET a == TraditionalSpam(s)
    IN  IF a.phase_elapsed >= _get_load_duration
        THEN EnterPhase(a, "fire")
        ELSE a

\* lines 2504-2514: the stop at the end of fire, tick with a detection
StopAtFireEnd(s) ==
    IF s.custom_enabled
    THEN IF s.player_playing THEN stop_attack(s) ELSE s
    ELSE IF s._mouse_down \/ s._x_key_down THEN _send_attack_input(s, FALSE) ELSE s

\* WebhookManager.attack_completed(attack_mode, duration): the notification
\* and the duration it carries
attack_completed(s, duration) == Emit(s, "attack_completed", duration)

\* lines 2488-2531: the fire phase of a tick with a detection; at the end of
\* fire "duration = current_time - self.attack_phase_start" is computed
\* after "self.attack_phase_start = current_time"
FireTick(s) ==
    LET a == TraditionalSpam(s)
    IN  IF a.phase_elapsed >= _get_fire_duration
        THEN LET b == EnterPhase(press(StopAtFireEnd(a), "1"), "cooldown")
                 duration == b.phase_elapsed
             IN  attack_completed(b, duration)
        ELSE a

\* lines 2187-2531 and 2705: the rest of a tick that has a detection
DetectionBranch(s, box) ==
    LET w == box[3] - box[1]
        h == box[4] - box[2]
        santa_cx == box[1] + w \div 4
        santa_cy == box[2] + h \div 2
        a == [s EXCEPT !._last_santa_center = <<santa_cx, santa_cy>>]
        b == StopSearchOnDetection(a)
        c == SteerDuringAttack(b, santa_cx)
        d == [c EXCEPT !.frames_since_detection = 0,
                       !._consecutive_detections = Min(@ + 1, required_detections)]
        can_start_attack == /\ d.attack_phase = "idle"
                            /\ d._consecutive_detections >= required_detections
        safe_zone_left == Frac(25)
        safe_zone_right == Frac(75)
        e == IF can_start_attack /\ santa_cx < safe_zone_left THEN SteerTo(d, "left")
             ELSE IF can_start_attack /\ santa_cx > safe_zone_right THEN SteerTo(d, "right")
             ELSE d
        still_can == can_start_attack /\ InSafeZone(santa_cx)
        f == IF still_can THEN StartAttack(e)
             ELSE IF e.attack_phase = "cooldown" THEN press(e, "e")
             ELSE e
        g == IF f.attack_phase = "load" THEN LoadTick(f)
             ELSE IF f.attack_phase = "fire" THEN FireTick(f)
             ELSE f
    IN  NextFrame(g)

FireEndToIdle(s) == EnterPhase(press(s, "1"), "idle")

\* lines 2576-2589: fire -> cooldown in a tick without detection
FireEndNoDetection(s) ==
    LET a == IF s._mouse_down \/ s._x_key_down THEN _send_attack_input(s, FALSE) ELSE s
    IN  EnterPhase(press(a, "1"), "cooldown")

\* lines 2559-2608: no detection, inside the grace window
GraceBranch(s) ==
    LET a == IF s.attack_phase \in {"load", "fire"} THEN TraditionalSpam(s) ELSE s
        b == IF a.attack_phase = "fire" /\ a.phase_elapsed >= _get_fire_duration
             THEN FireEndNoDetection(a)
             ELSE IF a.attack_phase = "cooldown" THEN press(a, "e")
             ELSE a
    IN  NextFrame(b)

\* lines 2609-2698: no detection, grace window expired
ExpiredBranch(s) ==
    LET a == [s EXCEPT !._consecutive_detections = 0,
                       !._last_santa_center = None,
                       !._detection_movement_history = <<>>]
    IN  IF a.attack_phase \in {"load", "fire"}
        THEN \* ends in "continue": the frame counter is not advanced
             IF a.attack_phase = "fire"
             THEN IF a.phase_elapsed >= _get_fire_duration
                  THEN [FireEndNoDetection(a) EXCEPT !.attack_committed = TRUE]
                  ELSE IF ~a._mouse_down /\ ~a._x_key_down
                       THEN _send_attack_input(a, TRUE)
                       ELSE a
             ELSE a
        ELSE
          LET b == IF a._mouse_down /\ a.attack_phase # "cooldown"
                   THEN [EnterPhase(press([a EXCEPT !._mouse_down = FALSE], "1"),
                                    "cooldown")
                            EXCEPT !.attack_committed = TRUE,
                                   !.last_kill_recent = TRUE]
                   ELSE a
              c == IF b.last_kill_recent THEN press(b, "e") ELSE b
          IN  IF c.search_state = "idle"
              THEN LET d == _force_release_all_arrows(c)
                   IN  IF d.attack_phase \in {"load", "fire", "cooldown"}
                       THEN d   \* "continue": the frame counter is not advanced
                       ELSE NextFrame(_force_release_all_arrows(
                                [d EXCEPT !._last_santa_center = None,
                                          !._detection_movement_history = <<>>,
                                          !.search_state = "searching_left"]))
              ELSE NextFrame(c)

\* lines 2540-2552: the stop check of the no-detection branch
StoppedNoDetection(s) ==
    LET a == IF s._mouse_down \/ s._x_key_down THEN _send_attack_input(s, FALSE) ELSE s
    IN  ReleaseCurrentArrow(a)

\* lines 2540-2707: the rest of a tick that has no detection
NoDetectionBranch(s) ==
    IF ~s._running THEN StoppedNoDetection(s)
    ELSE IF /\ s.frames_since_detection # NoDetectionYet
            /\ s.frames_since_detection <= GraceFrames
    THEN GraceBranch(s)
    ELSE ExpiredBranch(s)


--------------------------------------------------------------------------
(* State after SantaMacro.__init__ and the steps of the two threads       *)

InitFields(has_seq, custom) ==
    [ _running |-> FALSE,
      state |-> "idle",
      attack_phase |-> "idle",
      phase_elapsed |-> 0,
      attack_committed |-> FALSE,
      search_state |-> "idle",
      _consecutive_detections |-> 0,
      frames_since_detection |-> NoDetectionYet,
      frames_since_search |-> search_skip_frames,
      frames_since_cleanup |-> 0,
      _last_santa_center |-> None,
      _detection_movement_history |-> <<>>,
      current_arrow_key |-> NoKey,
      is_holding_arrow |-> FALSE,
      camera_keys_pressed |-> {},
      _mouse_down |-> FALSE,
      _x_key_down |-> FALSE,
      last_kill_recent |-> FALSE,
      keys_down |-> {},
      player_playing |-> FALSE,
      has_custom_sequence |-> has_seq,
      custom_enabled |-> custom,
      reset_due |-> FALSE,
      iterations_since_cleanup |-> 0,
      evts |-> <<>> ]

\* nothing to report about the last step
Quiet == [step |-> "other", phase0 |-> "idle", elapsed0 |-> 0, branch |-> "none"]

\* a custom attack sequence is configured and enabled
Init ==
    /\ self = InitFields(TRUE, TRUE)
    /\ pc = "loop"
    /\ best_santa = None
    /\ hk = "idle"
    /\ last = Quiet
    /\ det_run = 0

\* the fields as a step finds them: nothing emitted yet
Begin == [self EXCEPT !.evts = <<>>]

Note(step, branch) ==
    [step |-> step, phase0 |-> self.attack_phase,
     elapsed0 |-> self.phase_elapsed, branch |-> branch]

\* the clock moves on by dt seconds: time.time() - attack_phase_start grows
Elapse(s, dt) ==
    [s EXCEPT !.phase_elapsed = IF s.attack_phase = "idle" THEN @
                                ELSE Min(@ + dt, ElapsedCap)]

\* lines 1930-1934: the periodic forced release
PeriodicCleanup(s) ==
    IF s.frames_since_cleanup >= CleanupInterval
    THEN [_force_release_all_arrows(s) EXCEPT !.frames_since_cleanup = 0]
    ELSE s

\* lines 1927-1937: loop test, periodic cleanup, frame grab
LoopTop ==
    /\ pc = "loop"
    /\ self.state # "shutdown"
    /\ \E dt \in 0..MaxDt : self' = PeriodicCleanup(Elapse(Begin, dt))
    /\ pc' = "gate"
    /\ last' = Quiet
    /\ UNCHANGED <<best_santa, hk, det_run>>

FinalCleanupFlagsOnly(s) ==
    [s EXCEPT !.camera_keys_pressed = {},
              !.is_holding_arrow = FALSE,
              !.current_arrow_key = NoKey]

\* lines 3158-3168: the finally block of run()
FinalCleanup(s) ==
    LET a == keyUp(keyUp(s, "left"), "right")
    IN  [a EXCEPT !.camera_keys_pressed = {},
                  !.is_holding_arrow = FALSE,
                  !.current_arrow_key = NoKey,
                  !._mouse_down = FALSE]

\* the loop test fails: run() leaves through finally
LoopExit ==
    /\ pc = "loop"
    /\ self.state = "shutdown"
    /\ self' = FinalCleanup(Begin)
    /\ pc' = "exited"
    /\ last' = Quiet
    /\ UNCHANGED <<best_santa, hk, det_run>>

\* lines 1939-1946: "if not self._running: state = IDLE; sleep; continue"
GateIdle ==
    /\ pc = "gate"
    /\ ~self._running
    /\ self' = [Begin EXCEPT !.state = "idle"]
    /\ pc' = "loop"
    /\ last' = Note("gate", "idle")
    /\ UNCHANGED <<best_santa, hk, det_run>>

\* lines 1939-1985: the run flag is set; hold LEFT while searching
GateRun ==
    /\ pc = "gate"
    /\ self._running
    /\ self' = IF self.search_state = "searching_left"
               THEN SearchHoldLeft(Begin) ELSE Begin
    /\ pc' = "detect"
    /\ last' = Note("gate", "run")
    /\ UNCHANGED <<best_santa, hk, det_run>>

\* lines 1987-1995: the detector returned and the run flag is cleared
DetectStopped ==
    /\ pc = "detect"
    /\ ~self._running
    /\ self' = Begin
    /\ best_santa' = None
    /\ pc' = "loop"
    /\ last' = Quiet
    /\ UNCHANGED <<hk, det_run>>

\* lines 1987-2094: the detector call and the candidate filter, the
\* detector reporting nothing or one of boxes
DetectFrom(boxes) ==
    /\ pc = "detect"
    /\ self._running
    /\ \E box \in boxes \cup {None} :
         LET r == IF box = None THEN [s |-> Begin, best |-> None]
                  ELSE FilterCandidate(Begin, box)
         IN  /\ self' = r.s
             /\ best_santa' = r.best
    /\ pc' = "stopcheck"
    /\ last' = Quiet
    /\ UNCHANGED <<hk, det_run>>

Detect == DetectFrom(CandidateBoxes)

DetectWide == DetectFrom(WideBoxes)

\* lines 2101-2113: "if not self._running: release; continue"
StopCheckStopped ==
    /\ pc = "stopcheck"
    /\ ~self._running
    /\ self' = ReleaseCurrentArrow([Begin EXCEPT !._mouse_down = FALSE])
    /\ pc' = "loop"
    /\ last' = Note("stopcheck", "stopped")
    /\ best_santa' = None
    /\ UNCHANGED <<hk, det_run>>

\* lines 2101-2185: the run flag is set; the end of cooldown
StopCheckRun ==
    /\ pc = "stopcheck"
    /\ self._running
    /\ self' = CooldownEnd(Begin, best_santa)
    /\ pc' = "body"
    /\ last' = Note("cooldown_end", IF best_santa = None THEN "miss" ELSE "det")
    /\ UNCHANGED <<best_santa, hk, det_run>>

\* an iteration of the running loop ends, by falling through to the sleep
\* at line 2706 or by a continue (history: iterations completed since
\* the last forced release, the one that made it included, counted up to
\* one more than the interval)
EndOfIteration(s) ==
    IF ~s._running /\ best_santa = None THEN s
    ELSE [s EXCEPT !.iterations_since_cleanup = Min(@ + 1, CleanupInterval + 1)]

\* the fields after the body of a tick that begins with the fields s
BodyResult(s) ==
    EndOfIteration(IF best_santa # None THEN DetectionBranch(s, best_santa)
                   ELSE NoDetectionBranch(s))

BodyBranch ==
    IF best_santa # None THEN "det"
    ELSE IF ~self._running THEN "stopped"
    ELSE IF /\ self.frames_since_detection # NoDetectionYet
            /\ self.frames_since_detection <= GraceFrames THEN "grace"
    ELSE "expired"

\* lines 2187-2707: the detection branch or the no-detection branch
Body ==
    /\ pc = "body"
    /\ self' = BodyResult(Begin)
    /\ pc' = "loop"
    /\ last' = Note("body", BodyBranch)
    /\ det_run' = IF BodyBranch = "stopped" THEN det_run
                  ELSE IF best_santa # None THEN Min(det_run + 1, required_detections)
                  ELSE 0
    /\ best_santa' = None
    /\ UNCHANGED hk

\* The body of a tick that assigns attack_phase, with the toggle handler's
\* last statements (lines 1847-1854) running on the listener thread after
\* the body has tested the phase and its timer (and made the calls that
\* come before the assignment: stop_attack, pydirectinput) and before the
\* assignment itself: the two threads share these fields without a lock.
BodyAroundReset ==
    /\ pc = "body"
    /\ hk = "toggle_released"
    /\ LET r == BodyResult([Begin EXCEPT !.reset_due = TRUE])
       IN  /\ ~r.reset_due
           /\ self' = r
    /\ pc' = "loop"
    /\ hk' = "idle"
    /\ last' = Note("body", BodyBranch)
    /\ det_run' = IF best_santa # None THEN Min(det_run + 1, required_detections)
                  ELSE 0
    /\ best_santa' = None

--------------------------------------------------------------------------
(* Exceptions raised inside run(): by the frame grab, by the detector     *)
(* call and by the input sink.  run() is "try: while ...: finally: ..."   *)
(* with no except clause of its own.                                      *)

\* line 1936: self.sct.grab raises in _grab_frame; nothing catches it, run()
\* leaves through finally.  The note tells whether an arrow key was down.
GrabThrows ==
    /\ pc = "loop"
    /\ self.state # "shutdown"
    /\ self' = FinalCleanup(PeriodicCleanup(Begin))
    /\ pc' = "exited"
    /\ last' = Note("fault", IF PeriodicCleanup(Begin).keys_down # {}
                             THEN "capture_key_down" ELSE "capture")
    /\ UNCHANGED <<best_santa, hk, det_run>>

DetectorExceptionEscapes == "exited"

\* lines 1990-2091: where run() is after self.yolo_model(...) has raised:
\* "except Exception" at line 2089 logs, the iteration goes on at line 2096
DetectorExceptionCaught == "stopcheck"

\* line 1991: the detector call raises
DetectThrows ==
    /\ pc = "detect"
    /\ self' = Begin
    /\ best_santa' = None
    /\ pc' = DetectorExceptionCaught
    /\ last' = Note("fault", "detector")
    /\ UNCHANGED <<hk, det_run>>

\* lines 1968-1979: pydirectinput.keyDown('left') raises in the search
\* hold; the assignments after it are skipped, nothing catches it, run()
\* leaves through finally
SearchHoldThrows ==
    /\ pc = "gate"
    /\ self._running
    /\ self.search_state = "searching_left"
    /\ ~(self.is_holding_arrow /\ self.current_arrow_key = "left")
    /\ LET a == IF self.current_arrow_key # NoKey /\ self.current_arrow_key # "left"
                THEN keyUp(Begin, self.current_arrow_key)
                ELSE Begin
       IN  self' = FinalCleanup(a)
    /\ pc' = "exited"
    /\ last' = Note("fault", "search_hold")
    /\ UNCHANGED <<best_santa, hk, det_run>>

\* lines 1930-1937 with 443-513: the periodic forced release while the
\* sink raises on every call; _native_key_release and
\* _force_release_all_arrows catch it, no key goes up, the bookkeeping is
\* cleared all the same
SweepSinkFails ==
    /\ pc = "loop"
    /\ self.state # "shutdown"
    /\ self.frames_since_cleanup >= CleanupInterval
    /\ \E dt \in 0..MaxDt :
          self' = [Elapse(Begin, dt) EXCEPT !.current_arrow_key = NoKey,
                                           !.is_holding_arrow = FALSE,
                                           !.camera_keys_pressed = {},
                                           !.frames_since_cleanup = 0,
                                           !.iterations_since_cleanup = 0]
    /\ pc' = "gate"
    /\ last' = Note("fault", "sweep")
    /\ UNCHANGED <<best_santa, hk, det_run>>

--------------------------------------------------------------------------
(* SantaMacro._on_key, lines 1794-1911, on the listener thread            *)

\* lines 1820-1822 and 1881-1883
ClearRunFlag(s) == [s EXCEPT !._running = FALSE, !.state = "idle"]

\* lines 1863-1865 and 1875-1877
SetRunFlag(s) == [s EXCEPT !._running = TRUE, !.state = "detecting"]

\* lines 1825-1833: stop the player if it is playing, release mouse and x
HandlerStopAttack(s) ==
    LET a == IF s.player_playing THEN stop_attack(s) ELSE s
    IN  [a EXCEPT !._mouse_down = FALSE, !._x_key_down = FALSE]

\* lines 1834-1846: release the arrows under arrow_lock
HandlerReleaseArrows(s) ==
    LET a == IF s.current_arrow_key # NoKey THEN keyUp(s, s.current_arrow_key) ELSE s
        b == keyUp(keyUp(a, "left"), "right")
    IN  [b EXCEPT !.camera_keys_pressed = {},
                  !.is_holding_arrow = FALSE,
                  !.current_arrow_key = NoKey]

HotkeyIdle == hk = "idle" /\ pc # "exited"

\* the toggle key while running, lines 1817-1833: flags, player stop
OnToggleStop ==
    /\ HotkeyIdle
    /\ self._running
    /\ self' = HandlerStopAttack(ClearRunFlag(Begin))
    /\ hk' = "toggle_stopped"
    /\ last' = Note("hotkey", "toggle")
    /\ UNCHANGED <<pc, best_santa, det_run>>

\* the toggle key or the start key while stopped, lines 1859-1878
OnStart ==
    /\ HotkeyIdle
    /\ ~self._running
    /\ self' = SetRunFlag(Begin)
    /\ last' = Note("hotkey", "start")
    /\ UNCHANGED <<pc, best_santa, hk, det_run>>

\* the stop key while running, lines 1879-1894: flags, player stop
OnStop ==
    /\ HotkeyIdle
    /\ self._running
    /\ self' = HandlerStopAttack(ClearRunFlag(Begin))
    /\ hk' = "stop_stopped"
    /\ last' = Note("hotkey", "stop")
    /\ UNCHANGED <<pc, best_santa, det_run>>

\* the shutdown key, lines 1909-1911
OnShutdown ==
    /\ HotkeyIdle
    /\ self.state # "shutdown"
    /\ self' = [Begin EXCEPT !.state = "shutdown"]
    /\ last' = Note("hotkey", "shutdown")
    /\ UNCHANGED <<pc, best_santa, hk, det_run>>

\* the handler goes on: release the arrows; the stop key is done after this
OnKeyReleaseArrows ==
    /\ hk \in {"toggle_stopped", "stop_stopped"}
    /\ self' = HandlerReleaseArrows(Begin)
    /\ hk' = IF hk = "toggle_stopped" THEN "toggle_released" ELSE "idle"
    /\ last' = Note("hotkey", "release")
    /\ UNCHANGED <<pc, best_santa, det_run>>

\* the toggle handler's last statements
OnKeyReset ==
    /\ hk = "toggle_released"
    /\ self' = HandlerReset(Begin)
    /\ hk' = "idle"
    /\ last' = Note("hotkey", "reset")
    /\ UNCHANGED <<pc, best_santa, det_run>>

\* run() and the handler while the program is not being shut down
Tick == \/ LoopTop \/ GateIdle \/ GateRun \/ DetectStopped
        \/ Detect \/ StopCheckStopped \/ StopCheckRun \/ Body

OnKey == \/ OnToggleStop \/ OnStart \/ OnStop
         \/ OnKeyReleaseArrows \/ OnKeyReset

Next == Tick \/ OnKey \/ BodyAroundReset

Spec == Init /\ [][Next]_vars

\* the same loop in front of a target that shows up on either side, under
\* the toggle key alone
TickWide == \/ LoopTop \/ GateIdle \/ GateRun \/ DetectStopped
            \/ DetectWide \/ StopCheckStopped \/ StopCheckRun \/ Body

OnKeyToggle == OnToggleStop \/ OnStart \/ OnKeyReleaseArrows \/ OnKeyReset

NextWide == TickWide \/ OnKeyToggle \/ BodyAroundReset

SpecWide == Init /\ [][NextWide]_vars

\* the same again with the shutdown key, the way out of run() and the
\* exceptions
Faults == GrabThrows \/ DetectThrows \/ SearchHoldThrows \/ SweepSinkFails

NextFaults == NextWide \/ OnShutdown \/ LoopExit \/ Faults

SpecFaults == Init /\ [][NextFaults]_vars

TypeOK ==
    /\ pc \in {"loop", "gate", "detect", "stopcheck", "body", "exited"}
    /\ self.attack_phase \in {"idle", "load", "fire", "cooldown"}
    /\ self.search_state \in {"idle", "searching_left"}
    /\ self.current_arrow_key \in {NoKey, "left", "right"}
    /\ self.keys_down \subseteq {"left", "right"}
    /\ self.phase_elapsed \in 0..ElapsedCap
    /\ best_santa \in CandidateBoxes \cup WideBoxes \cup {None}

--------------------------------------------------------------------------
(* The learner of the legacy tracking path: _start_learning_phase,         *)
(* _process_learning_sample and _finalize_learning, called on a SantaMacro *)
(* object one after the other.  `self` holds the fields these methods read *)
(* and write; `now` is time.time() in whole seconds.  An exception leaves  *)
(* the assignments made before it in place and is recorded in `error`.     *)
(* The log-only counters _learning_lost_count and _learning_last_sample_ts *)
(* are left out.                                                           *)

MaxClock == 5
MaxSamples == 4
\* 50 in the source
min_required_samples == 3
min_continuous == 3
min_santa_size == 25
max_santa_size == 300
learning_jump_limit == 200
\* a timestamp that is None; the code tests timestamps by truth value
NoTime == 0

SizeOf(bbox) == Max(bbox[3], bbox[4])

CenterOf(bbox) == <<bbox[1] + bbox[3] \div 2, bbox[2] + bbox[4] \div 2>>

\* math.sqrt(dx*dx + dy*dy), rounded down
Hypot(dx, dy) ==
    CHOOSE r \in 0..(Abs(dx) + Abs(dy)) :
        r * r <= dx * dx + dy * dy /\ dx * dx + dy * dy < (r + 1) * (r + 1)

SantaProfile ==
    [size_min |-> 0, size_max |-> 9999, avg_speed |-> [dist |-> 0, time |-> 1],
     color_signature |-> None, movement_history |-> <<>>]

\* the boxes a detector hands to the learner: centres on one horizontal
\* line, sizes 40, 30 and 100, a far jump, and sizes 400 and 10
SampleBoxes ==
    { <<280, 280, 40, 40>>, <<320, 280, 40, 40>>, <<285, 285, 30, 30>>,
      <<250, 250, 100, 100>>, <<500, 280, 40, 40>>,
      <<100, 100, 400, 400>>, <<140, 100, 400, 400>>,
      <<295, 295, 10, 10>>, <<335, 295, 10, 10>> }

LearnerFields ==
    [now |-> 1, error |-> "none", state |-> "detecting",
     _learning_start_ts |-> NoTime, _learning_samples |-> <<>>,
     _santa_profile |-> SantaProfile, _locked_santa |-> FALSE,
     _learning_stable_count |-> 0, _learning_first_bbox |-> None,
     _learning_continuous_start |-> NoTime, _last_santa_center |-> None]

_start_learning_phase(s) ==
    [s EXCEPT !._learning_start_ts = s.now,
              !._learning_samples = <<>>,
              !._santa_profile = SantaProfile,
              !._locked_santa = FALSE,
              !._learning_stable_count = 0,
              !._learning_first_bbox = None,
              !._learning_continuous_start = NoTime,
              !.state = "learning"]

RejectLearningSample(s) == [s EXCEPT !._learning_continuous_start = NoTime]

\* size / first_size outside [0.5, 2.0]
SizeRatioOff(size, first_size) ==
    IF first_size > 0 THEN 2 * size < first_size \/ size > 2 * first_size
    ELSE TRUE

LearningJump(s, center) ==
    /\ s._last_santa_center # None
    /\ LET dx == center[1] - s._last_santa_center[1]
           dy == center[2] - s._last_santa_center[2]
       IN dx * dx + dy * dy > learning_jump_limit * learning_jump_limit

RECURSIVE TotalDist(_, _)
TotalDist(h, i) ==
    IF i > Len(h) THEN 0
    ELSE (IF h[i][1] - h[i-1][1] > 0
          THEN Hypot(h[i][2][1] - h[i-1][2][1], h[i][2][2] - h[i-1][2][2])
          ELSE 0) + TotalDist(h, i + 1)

RECURSIVE TotalTime(_, _)
TotalTime(h, i) ==
    IF i > Len(h) THEN 0
    ELSE (IF h[i][1] - h[i-1][1] > 0 THEN h[i][1] - h[i-1][1] ELSE 0)
         + TotalTime(h, i + 1)

AvgSpeed(old, h) ==
    IF Len(h) >= 2 /\ TotalTime(h, 2) > 0
    THEN [dist |-> TotalDist(h, 2), time |-> TotalTime(h, 2)]
    ELSE old

\* the sample passed both filters: lines 882-915, then the read of the
\* undefined name roi_y at line 918
AcceptLearningSample(s, bbox) ==
    LET size == SizeOf(bbox)
        samples == Append(s._learning_samples, <<s.now, bbox>>)
        history == Append(s._santa_profile.movement_history,
                          <<s.now, CenterOf(bbox)>>)
        p == s._santa_profile
    IN [s EXCEPT
          !._learning_samples = samples,
          !._learning_stable_count = @ + 1,
          !._last_santa_center = CenterOf(bbox),
          !._learning_continuous_start = IF @ = NoTime THEN s.now ELSE @,
          !._santa_profile =
              [p EXCEPT !.size_min = IF Len(samples) = 1 THEN size
                                     ELSE Min(p.size_min, size),
                        !.size_max = IF Len(samples) = 1 THEN size
                                     ELSE Max(p.size_max, size),
                        !.movement_history = history,
                        !.avg_speed = AvgSpeed(p.avg_speed, history)],
          !.error = "NameError"]

_process_learning_sample(s, bbox) ==
    IF s._learning_first_bbox = None
    THEN [s EXCEPT !._learning_first_bbox = bbox,
                   !._last_santa_center = CenterOf(bbox),
                   !._learning_continuous_start = s.now]
    ELSE IF SizeRatioOff(SizeOf(bbox), SizeOf(s._learning_first_bbox))
    THEN RejectLearningSample(s)
    ELSE IF LearningJump(s, CenterOf(bbox))
    THEN RejectLearningSample(s)
    ELSE AcceptLearningSample(s, bbox)

ContinuousTime(s) ==
    IF s._learning_continuous_start # NoTime
    THEN s.now - s._learning_continuous_start ELSE 0

LearningFailed(s) ==
    [s EXCEPT !._learning_start_ts = NoTime,
              !._learning_first_bbox = None,
              !._learning_continuous_start = NoTime,
              !._locked_santa = FALSE,
              !.state = "detecting"]

\* avg_speed < 10 or avg_speed > 500
UnrealisticSpeed(v) == v.dist < 10 * v.time \/ v.dist > 500 * v.time

\* size_tolerance is 0.5: int(size_range * 0.5)
Tolerance(p) == (p.size_max - p.size_min) \div 2

CommitProfile(s) ==
    LET p == s._santa_profile
    IN [s EXCEPT !._locked_santa = TRUE,
                 !.state = "detecting",
                 !._santa_profile =
                     [p EXCEPT !.size_min = Max(min_santa_size,
                                                p.size_min - Tolerance(p)),
                               !.size_max = Min(max_santa_size,
                                                p.size_max + Tolerance(p))]]

_finalize_learning(s) ==
    IF \/ Len(s._learning_samples) < min_required_samples
       \/ ContinuousTime(s) < min_continuous
    THEN LearningFailed(s)
    ELSE IF UnrealisticSpeed(s._santa_profile.avg_speed)
    THEN LearningFailed(s)
    ELSE CommitProfile(s)

LegacyNote(step, branch) ==
    [step |-> step, phase0 |-> "idle", elapsed0 |-> 0, branch |-> branch]

InitLearner ==
    /\ self = LearnerFields
    /\ pc = "legacy"
    /\ best_santa = None
    /\ hk = "idle"
    /\ last = Quiet
    /\ det_run = 0

\* a call enters with no exception pending; the clock may have moved
Called(dt) == [self EXCEPT !.now = @ + dt, !.error = "none"]

StartLearning ==
    /\ self._learning_start_ts = NoTime
    /\ \E dt \in 0..MaxDt :
        /\ self.now + dt <= MaxClock
        /\ self' = _start_learning_phase(Called(dt))
    /\ last' = LegacyNote("start_learning", "none")
    /\ UNCHANGED <<pc, best_santa, hk, det_run>>

FeedSample ==
    /\ self._learning_start_ts # NoTime
    /\ ~self._locked_santa
    /\ Len(self._learning_samples) < MaxSamples
    /\ \E dt \in 0..MaxDt, bbox \in SampleBoxes :
        /\ self.now + dt <= MaxClock
        /\ self' = _process_learning_sample(Called(dt), bbox)
    /\ last' = LegacyNote("sample", "none")
    /\ UNCHANGED <<pc, best_santa, hk, det_run>>

FinalizeLearning ==
    /\ self._learning_start_ts # NoTime
    /\ ~self._locked_santa
    /\ \E dt \in 0..MaxDt :
        /\ self.now + dt <= MaxClock
        /\ self' = _finalize_learning(Called(dt))
    /\ last' = LegacyNote("finalize", "none")
    /\ UNCHANGED <<pc, best_santa, hk, det_run>>

NextLearner == StartLearning \/ FeedSample \/ FinalizeLearning

SpecLearner == InitLearner /\ [][NextLearner]_vars

--------------------------------------------------------------------------
(* _validate_detection as a function of the object's fields and of its     *)
(* arguments.  avg_speed is the exact quotient dist/time in px/s and       *)
(* tick_interval is 1/tick_hz, so that the comparison with                 *)
(* avg_speed * tick_interval * 3.0 is made on integers.  The colour test   *)
(* compares the histogram of the candidate's region of the frame with the  *)
(* signature; its outcome is the argument `colour`: "match", "mismatch",   *)
(* or "outside" when the region is empty and no comparison is made.        *)

position_jump_threshold == 150

SizeOutOfRangeAboveOnly(p, bbox) == SizeOf(bbox) > p.size_max

SizeOutOfRange(p, bbox) ==
    SizeOf(bbox) < p.size_min \/ SizeOf(bbox) > p.size_max

\* jump_dist > position_jump_threshold + expected_max_jump
JumpTooFarSum(s, center) ==
    LET dx == center[1] - s._last_santa_center[1]
        dy == center[2] - s._last_santa_center[2]
        v == s._santa_profile.avg_speed
        hz == Max(s.tick_hz, 1)
    IN \E r \in 0..(Abs(dx) + Abs(dy)) :
          /\ r * r < dx * dx + dy * dy
          /\ r >= position_jump_threshold
          /\ (r - position_jump_threshold) * v.time * hz >= 3 * v.dist

\* jump_dist > max(position_jump_threshold, avg_speed * tick_interval * 3.0)
JumpTooFar(s, center) ==
    LET dx == center[1] - s._last_santa_center[1]
        dy == center[2] - s._last_santa_center[2]
        d2 == dx * dx + dy * dy
        v == s._santa_profile.avg_speed
        hz == Max(s.tick_hz, 1)
    IN /\ d2 > position_jump_threshold * position_jump_threshold
       /\ d2 * (v.time * hz) * (v.time * hz) > 9 * v.dist * v.dist

_validate_detection(s, bbox, colour) ==
    IF ~s._locked_santa THEN "valid"
    ELSE IF SizeOutOfRange(s._santa_profile, bbox) THEN "size"
    ELSE IF s._last_santa_center # None /\ JumpTooFar(s, CenterOf(bbox))
    THEN "jump"
    ELSE IF s._santa_profile.color_signature # None /\ colour = "mismatch"
    THEN "colour"
    ELSE "valid"

\* the profiles, last centres and tick rates the function is applied with
ValidatorFields ==
    { [_locked_santa |-> TRUE, tick_hz |-> hz, _last_santa_center |-> c,
       _santa_profile |-> [SantaProfile EXCEPT !.size_min = sz[1],
                                               !.size_max = sz[2],
                                               !.avg_speed = v,
                                               !.color_signature = sig],
       call |-> [bbox |-> None, colour |-> "none"], verdict |-> "none"] :
         hz \in {5, 25}, c \in {None, <<400, 400>>},
         sz \in {<<25, 45>>, <<30, 300>>},
         v \in {[dist |-> 50, time |-> 1], [dist |-> 500, time |-> 1],
                [dist |-> 65, time |-> 2]},
         sig \in {None, <<"histogram">>} }

\* candidates centred 0, 150, 151, 300 and 301 px from (400, 400), of
\* sizes 24, 25, 45, 46, 300 and 301
ValidatorBoxes ==
    { <<cx - wh[1] \div 2, 400 - wh[2] \div 2, wh[1], wh[2]>> :
        cx \in {400, 550, 551, 700, 701},
        wh \in {<<24, 20>>, <<25, 25>>, <<44, 45>>, <<46, 46>>,
                <<300, 100>>, <<20, 301>>} }

InitValidator ==
    /\ self \in ValidatorFields
    /\ pc = "legacy"
    /\ best_santa = None
    /\ hk = "idle"
    /\ last = Quiet
    /\ det_run = 0

Validate ==
    /\ \E bbox \in ValidatorBoxes, colour \in {"match", "mismatch", "outside"} :
        self' = [self EXCEPT
                   !.call = [bbox |-> bbox, colour |-> colour],
                   !.verdict = _validate_detection(self, bbox, colour)]
    /\ last' = LegacyNote("validate", "none")
    /\ UNCHANGED <<pc, best_santa, hk, det_run>>

SpecValidator == InitValidator /\ [][Validate]_vars

--------------------------------------------------------------------------
(* The locked branch of the legacy tick (run(), lines 2746-2820) on an     *)
(* object that has just committed a profile.  Time is counted in ticks     *)
(* (tick_interval is one unit); _santa_velocity is kept in 1/1000 px per   *)
(* tick.  Camera control is configured off.  An exception ends run().      *)

MaxTrackClock == 8
MaxTrackingUpdates == 3
invalid_prediction_ceiling == 15
absent_prediction_ceiling == 20
lost_ceiling == 50

_update_santa_tracking(s, bbox) ==
    LET center == CenterOf(bbox)
        dt == s.now - s._last_position_ts
        moved == /\ s._last_santa_center # None
                 /\ s._last_position_ts # NoTime
                 /\ dt > 0
        vel == IF moved
               THEN [i \in 1..2 |->
                       (7 * s._santa_velocity[i]
                        + (3000 * (center[i] - s._last_santa_center[i])) \div dt)
                       \div 10]
               ELSE s._santa_velocity
    IN [s EXCEPT !._santa_velocity = vel,
                 !._last_santa_center = center,
                 !._last_position_ts = s.now,
                 !._predicted_position =
                     [i \in 1..2 |-> (1000 * center[i] + vel[i]) \div 1000],
                 !._postlock_consecutive_valid = @ + 1]

\* the box of average size around the predicted position
PredictedDetection(s, confidence) ==
    LET avg_size == (s._santa_profile.size_min + s._santa_profile.size_max) \div 2
    IN [bbox |-> <<s._predicted_position[1] - avg_size \div 2,
                   s._predicted_position[2] - avg_size \div 2,
                   avg_size, avg_size>>,
        confidence |-> confidence]

NoDetection == [bbox |-> None, confidence |-> "0.0"]

\* lines 2749-2806; self._reset_postlock_valid is no attribute of the
\* object (line 1061 defines it inside _update_santa_tracking)
LockedTickMotion(s, bbox, colour) ==
    IF bbox # None
    THEN IF _validate_detection(s, bbox, colour) = "valid"
         THEN [_update_santa_tracking(s, bbox) EXCEPT
                 !.det = [bbox |-> bbox, confidence |-> "detector"],
                 !._rejected_detections_count = 0]
         ELSE [s EXCEPT !._rejected_detections_count = @ + 1,
                        !.error = "AttributeError"]
    ELSE IF /\ s._predicted_position # None
            /\ s._rejected_detections_count < absent_prediction_ceiling
    THEN [s EXCEPT !.det = PredictedDetection(s, "0.4")]
    ELSE IF s._rejected_detections_count >= lost_ceiling
    THEN [s EXCEPT !._locked_santa = FALSE,
                   !._learning_start_ts = NoTime,
                   !._rejected_detections_count = 0]
    ELSE s

\* lines 2808-2818
LockedTickOther(s, bbox, colour) ==
    IF bbox = None THEN s
    ELSE IF _validate_detection(s, bbox, colour) = "valid"
    THEN [_update_santa_tracking(s, bbox) EXCEPT
            !.det = [bbox |-> bbox, confidence |-> "detector"],
            !._rejected_detections_count = 0]
    ELSE [s EXCEPT !._rejected_detections_count = @ + 1]

TrackerFields(det_mode) ==
    [det_mode |-> det_mode, tick_hz |-> 25, now |-> 1, error |-> "none",
     state |-> "detecting", _locked_santa |-> TRUE, _learning_start_ts |-> 1,
     _santa_profile |-> [SantaProfile EXCEPT
                           !.size_min = 25, !.size_max = 45,
                           !.avg_speed = [dist |-> 50, time |-> 1]],
     _last_santa_center |-> <<400, 400>>, _last_position_ts |-> NoTime,
     _santa_velocity |-> <<0, 0>>, _predicted_position |-> None,
     _rejected_detections_count |-> 0, _postlock_consecutive_valid |-> 0,
     det |-> NoDetection, candidate |-> "none"]

\* on the spot, 100 px to the right, 200 px to the right, too large
TrackerBoxes ==
    { <<380, 380, 40, 40>>, <<480, 380, 40, 40>>, <<580, 380, 40, 40>>,
      <<350, 350, 100, 100>> }

InitTracker ==
    /\ self \in {TrackerFields("motion"), TrackerFields("template")}
    /\ pc = "legacy"
    /\ best_santa = None
    /\ hk = "idle"
    /\ last = Quiet
    /\ det_run = 0

\* one iteration of run() that takes the locked branch; `candidate` notes
\* what the detector returned
LockedTick ==
    /\ self._locked_santa
    /\ self.error = "none"
    /\ \E dt \in 1..(MaxDt + 1), bbox \in TrackerBoxes \cup {None},
          colour \in {"match"} :
        /\ self.now + dt <= MaxTrackClock
        /\ bbox # None /\ _validate_detection(self, bbox, colour) = "valid"
              => self._postlock_consecutive_valid < MaxTrackingUpdates
        /\ LET s == [self EXCEPT !.now = @ + dt, !.state = "detecting",
                                 !.det = NoDetection,
                                 !.candidate =
                                     IF bbox = None THEN "absent"
                                     ELSE IF _validate_detection(self, bbox, colour) = "valid"
                                     THEN "valid" ELSE "invalid"]
           IN self' = IF s.det_mode = "motion"
                      THEN LockedTickMotion(s, bbox, colour)
                      ELSE LockedTickOther(s, bbox, colour)
    /\ last' = LegacyNote("locked_tick", "none")
    /\ UNCHANGED <<pc, best_santa, hk, det_run>>

SpecTracker == InitTracker /\ [][LockedTick]_vars

--------------------------------------------------------------------------
(* The lock-on state machine: _initiate_lock_on, _update_lock_on and       *)
(* _release_lock_on, called as run() calls them (initiate while unlocked,  *)
(* update while locked).  `now` is time.time() in seconds.  close_updates  *)
(* and moved_ts record what was fed: the number of updates in a row whose  *)
(* centre was less than 10 px from the previous one, and the time of the   *)
(* initiation or of the last update that moved farther.                    *)

MaxLockClock == 5
_max_bbox_history == 5
_stuck_detection_threshold == 10
_movement_timeout_seconds == 2
still_distance == 10

LockOnFields ==
    [now |-> 1, _locked_on_santa |-> FALSE, _lock_start_ts |-> NoTime,
     _last_movement_ts |-> NoTime, _santa_bbox_history |-> <<>>,
     _stuck_counter |-> 0, release_reason |-> "none",
     close_updates |-> 0, moved_ts |-> NoTime]

\* a box of 20 px, and 60 px boxes on the spot, 5 px and 100 px further
LockBoxes ==
    { <<300, 300, 20, 20>>, <<300, 300, 60, 60>>, <<305, 300, 60, 60>>,
      <<400, 300, 60, 60>> }

\* the area test is against a quarter of a 1000 x 600 region of interest
_initiate_lock_on(s, bbox) ==
    IF \/ bbox[3] < 30 \/ bbox[4] < 30
       \/ 4 * bbox[3] * bbox[4] > roi_width * 600
       \/ 10 * bbox[3] < 3 * Max(bbox[4], 1)
       \/ 2 * bbox[3] > 7 * Max(bbox[4], 1)
    THEN s
    ELSE [s EXCEPT !._locked_on_santa = TRUE,
                   !._lock_start_ts = s.now,
                   !._last_movement_ts = s.now,
                   !._santa_bbox_history = <<bbox>>,
                   !._stuck_counter = 0,
                   !.release_reason = "none",
                   !.close_updates = 0,
                   !.moved_ts = s.now]

_release_lock_on(s, reason) ==
    [s EXCEPT !._locked_on_santa = FALSE,
              !._lock_start_ts = NoTime,
              !._last_movement_ts = NoTime,
              !._santa_bbox_history = <<>>,
              !._stuck_counter = 0,
              !.release_reason = reason]

\* math.hypot of the two centres is below 1
CentresCoincide(a, b) ==
    LET dx == CenterOf(a)[1] - CenterOf(b)[1]
        dy == CenterOf(a)[2] - CenterOf(b)[2]
    IN dx * dx + dy * dy < 1

\* math.hypot of the two centres is below 10
CentresClose(a, b) ==
    LET dx == CenterOf(a)[1] - CenterOf(b)[1]
        dy == CenterOf(a)[2] - CenterOf(b)[2]
    IN dx * dx + dy * dy < still_distance * still_distance

PushBbox(s, bbox) ==
    LET h == Append(s._santa_bbox_history, bbox)
    IN [s EXCEPT !._santa_bbox_history =
                     IF Len(h) > _max_bbox_history THEN Tail(h) ELSE h]

_update_lock_on(s, bbox) ==
    IF s._santa_bbox_history = <<>>
    THEN PushBbox([s EXCEPT !._last_movement_ts = s.now], bbox)
    ELSE IF CentresClose(bbox, s._santa_bbox_history[Len(s._santa_bbox_history)])
    THEN LET c == [s EXCEPT !._stuck_counter = @ + 1]
         IN IF /\ c._last_movement_ts # NoTime
               /\ c.now - c._last_movement_ts > _movement_timeout_seconds
            THEN _release_lock_on(c, "no_movement")
            ELSE IF c._stuck_counter >= _stuck_detection_threshold
            THEN _release_lock_on(c, "stuck")
            ELSE PushBbox(c, bbox)
    ELSE PushBbox([s EXCEPT !._stuck_counter = 0,
                            !._last_movement_ts = s.now], bbox)

InitLockOn ==
    /\ self = LockOnFields
    /\ pc = "legacy"
    /\ best_santa = None
    /\ hk = "idle"
    /\ last = Quiet
    /\ det_run = 0

InitiateLockOn ==
    /\ ~self._locked_on_santa
    /\ \E dt \in 0..MaxDt, bbox \in LockBoxes :
        /\ self.now + dt <= MaxLockClock
        /\ self' = _initiate_lock_on([self EXCEPT !.now = @ + dt], bbox)
    /\ last' = LegacyNote("initiate_lock", "none")
    /\ UNCHANGED <<pc, best_santa, hk, det_run>>

UpdateLockOn ==
    /\ self._locked_on_santa
    /\ \E dt \in 0..MaxDt, bbox \in LockBoxes :
        /\ self.now + dt <= MaxLockClock
        /\ LET prev == self._santa_bbox_history[Len(self._santa_bbox_history)]
               close == (CenterOf(bbox)[1] - CenterOf(prev)[1]) \in -9..9
                        /\ CenterOf(bbox)[2] = CenterOf(prev)[2]
               s == [self EXCEPT
                       !.now = @ + dt,
                       !.close_updates = IF close THEN @ + 1 ELSE 0,
                       !.moved_ts = IF close THEN @ ELSE self.now + dt]
           IN /\ self' = _update_lock_on(s, bbox)
              /\ last' = LegacyNote("update_lock",
                                    IF close THEN "close" ELSE "moved")
    /\ UNCHANGED <<pc, best_santa, hk, det_run>>

NextLockOn == InitiateLockOn \/ UpdateLockOn

SpecLockOn == InitLockOn /\ [][NextLockOn]_vars

--------------------------------------------------------------------------
(* ActionPlayer (action_system.py).  play_sequence and stop_playback are   *)
(* called by the tick thread and by the hotkey thread; every playback runs *)
(* _play_sequence_thread in a thread of its own.  `threads` holds the      *)
(* position of each playback thread, `held` the keys that are down at the  *)
(* input sink.  A step of a thread is one read of stop_requested or one    *)
(* key event.  join(timeout=1.0) can time out while the thread sleeps      *)
(* through a recorded gap of more than a second.                           *)

MaxThreads == 2

\* a recorded sequence: a key pressed, and released more than 1 s later
RecordedActions ==
    << [delay |-> "short", type |-> "key_press", key |-> "x"],
       [delay |-> "long", type |-> "key_release", key |-> "x"] >>

NoThread == 0

IdleThread == [pc |-> "none", i |-> 1, loop |-> FALSE, pressed |-> {},
               revoked |-> FALSE, closed |-> FALSE]

PlayerFields ==
    [playing |-> FALSE, current_thread |-> NoThread,
     stop_requested |-> FALSE, in_end_delay |-> FALSE,
     threads |-> [t \in 1..MaxThreads |-> IdleThread],
     held |-> {}, stop_pc |-> "idle", stopped |-> FALSE, event_by |-> NoThread,
     event |-> <<>>]

is_alive(s, t) == t # NoThread /\ s.threads[t].pc \notin {"none", "done"}

\* the device and the key an event with this key name goes to: a name in
\* ['left', 'right', 'middle'] is a mouse button, any other a keyboard key
\* (key_mapping maps every name it lists to itself)
ReplayedAs(key) ==
    IF key \in {"left", "right", "middle"}
    THEN [device |-> "mouse", key |-> key]
    ELSE [device |-> "keyboard", key |-> key]

\* pyautogui.mouseDown / mouseUp or pydirectinput.keyDown / keyUp called by
\* thread t
_press_key(s, t, key, down) ==
    [s EXCEPT !.held = IF down THEN @ \cup {key} ELSE @ \ {key},
              !.threads[t].pressed = IF down THEN @ \cup {key} ELSE @ \ {key},
              !.event_by = t,
              !.event = <<ReplayedAs(key), down>>]

AtThread(s, t, at) == [s EXCEPT !.threads[t].pc = at]

\* lines 277-285: leave after the sequence, or start the end-delay macro
AfterSequence(s, t) ==
    IF s.stop_requested \/ ~s.threads[t].loop
    THEN AtThread(s, t, "finally")
    ELSE AtThread(_press_key([s EXCEPT !.in_end_delay = TRUE], t, "3", TRUE),
                  t, "open_release")

\* one step of _play_sequence_thread; `elapsed` tells whether the end delay
\* has run out when the spam loop tests it
_play_sequence_thread(s, t, elapsed) ==
    LET th == s.threads[t]
        a == RecordedActions[th.i]
    IN CASE th.pc = "begin" ->
              [AtThread(s, t, "check") EXCEPT !.playing = TRUE, !.threads[t].i = 1]
         [] th.pc = "check" ->
              IF th.i > Len(RecordedActions) \/ s.stop_requested
              THEN AtThread(s, t, "after_sequence")
              ELSE AtThread(s, t, "sleep")
         [] th.pc = "sleep" ->
              [AtThread(_press_key(s, t, a.key, a.type = "key_press"), t, "check")
                  EXCEPT !.threads[t].i = @ + 1]
         [] th.pc = "after_sequence" -> AfterSequence(s, t)
         [] th.pc = "open_release" ->
              AtThread(_press_key(s, t, "3", FALSE), t, "spam")
         [] th.pc = "spam" ->
              IF elapsed \/ s.stop_requested
              THEN AtThread(s, t, "close")
              ELSE AtThread(_press_key(s, t, "e", TRUE), t, "spam_release")
         [] th.pc = "spam_release" ->
              AtThread(_press_key(s, t, "e", FALSE), t, "spam")
         [] th.pc = "close" ->
              IF ~s.stop_requested
              THEN AtThread(_press_key(s, t, "3", TRUE), t, "close_release")
              ELSE [AtThread(s, t, "tail") EXCEPT !.threads[t].closed = FALSE]
         [] th.pc = "close_release" ->
              [AtThread(_press_key(s, t, "3", FALSE), t, "tail")
                  EXCEPT !.threads[t].closed = TRUE]
         [] th.pc = "tail" ->
              IF ~th.loop \/ s.stop_requested
              THEN AtThread([s EXCEPT !.in_end_delay = FALSE], t, "finally")
              ELSE [AtThread([s EXCEPT !.in_end_delay = FALSE], t, "check")
                       EXCEPT !.threads[t].i = 1]
         [] th.pc = "finally" ->
              AtThread([s EXCEPT !.playing = FALSE, !.in_end_delay = FALSE],
                       t, "done")

InitPlayer ==
    /\ self = PlayerFields
    /\ pc = "player"
    /\ best_santa = None
    /\ hk = "idle"
    /\ last = Quiet
    /\ det_run = 0

PlayerCall == [self EXCEPT !.event_by = NoThread, !.event = <<>>]

\* play_sequence(actions, loop, end_delay) with a recorded sequence
PlaySequence ==
    /\ \E loop \in BOOLEAN, t \in 1..MaxThreads :
        /\ ~is_alive(self, t)
        /\ \A u \in 1..(t - 1) : is_alive(self, u)
        /\ self' = IF self.playing THEN PlayerCall
                   ELSE [PlayerCall EXCEPT
                           !.stop_requested = FALSE,
                           !.current_thread = t,
                           !.threads[t] = [IdleThread EXCEPT !.pc = "begin",
                                                             !.loop = loop],
                           !.stopped = FALSE]
    /\ last' = LegacyNote("play_sequence", IF self.playing THEN "refused" ELSE "started")
    /\ UNCHANGED <<pc, best_santa, hk, det_run>>

StopReturns(s) ==
    [s EXCEPT !.playing = FALSE, !.in_end_delay = FALSE,
              !.stop_pc = "idle", !.stopped = TRUE,
              !.threads = [t \in 1..MaxThreads |->
                             [s.threads[t] EXCEPT
                                !.revoked = @ \/ is_alive(s, t)]]]

\* stop_playback up to the join
StopPlayback ==
    /\ self.stop_pc = "idle"
    /\ LET s == [PlayerCall EXCEPT !.stop_requested = TRUE]
       IN self' = IF is_alive(s, s.current_thread)
                  THEN [s EXCEPT !.stop_pc = "joining"]
                  ELSE StopReturns(s)
    /\ last' = LegacyNote("stop_playback", "called")
    /\ UNCHANGED <<pc, best_santa, hk, det_run>>

\* the join returns: the thread has ended, or a second has passed
StopPlaybackJoined ==
    /\ self.stop_pc = "joining"
    /\ LET t == self.current_thread
       IN \/ ~is_alive(self, t)
          \/ /\ self.threads[t].pc = "sleep"
             /\ RecordedActions[self.threads[t].i].delay = "long"
    /\ self' = StopReturns(PlayerCall)
    /\ last' = LegacyNote("stop_playback",
                          IF is_alive(self, self.current_thread)
                          THEN "timed_out" ELSE "joined")
    /\ UNCHANGED <<pc, best_santa, hk, det_run>>

ThreadStep ==
    /\ \E t \in 1..MaxThreads, elapsed \in BOOLEAN :
        /\ is_alive(self, t)
        /\ self' = _play_sequence_thread(PlayerCall, t, elapsed)
    /\ last' = LegacyNote("thread", "none")
    /\ UNCHANGED <<pc, best_santa, hk, det_run>>

NextPlayer == PlaySequence \/ StopPlayback \/ StopPlaybackJoined \/ ThreadStep

SpecPlayer == InitPlayer /\ [][NextPlayer]_vars

--------------------------------------------------------------------------
(* ActionRecorder (action_system.py) and the replay of what it recorded.   *)
(* start_recording and stop_recording are called from one thread; the     *)
(* keyboard listener calls _on_key_press / _on_key_release on its own      *)
(* thread and the mouse thread polls the buttons.  A keyboard callback is  *)
(* two steps, the test of `recording` and the append; listener.stop() does *)
(* not wait for a callback that is under way, the join of the mouse thread *)
(* does.  `origins` notes, for every stored action, the device and key the *)
(* input came from; `returned` is the list the last stop_recording call    *)
(* returned and `replayed` what the player sent for it.  Timestamps are    *)
(* left out.                                                               *)

MaxActions == 3

RecorderFields ==
    [recording |-> FALSE, actions |-> <<>>, origins |-> <<>>,
     start_time |-> NoTime, keyboard_listener |-> "none",
     mouse_thread |-> "none", mouse_thread_running |-> FALSE,
     last_mouse_state |-> FALSE, key_callback |-> <<>>,
     stop_pc |-> "idle", returned |-> <<>>, replayed |-> <<>>]

\* key.char or key.name of the keys typed while recording
TypedKeys == {"x", "left", "f3"}

Recorded(s, type, key, device) ==
    [s EXCEPT !.actions = Append(@, [type |-> type, key |-> key]),
              !.origins = Append(@, [device |-> device, key |-> key])]

start_recording(s) ==
    IF s.recording THEN s
    ELSE [s EXCEPT !.recording = TRUE, !.actions = <<>>, !.origins = <<>>,
                   !.start_time = 1, !.last_mouse_state = FALSE,
                   !.mouse_thread_running = TRUE, !.mouse_thread = "polling",
                   !.keyboard_listener = "running"]

\* _execute_action: what the player sends for a stored action
_execute_action(a) ==
    IF a.type \in {"key_press", "key_release"}
    THEN <<ReplayedAs(a.key), a.type = "key_press">>
    ELSE <<>>

InitRecorder ==
    /\ self = RecorderFields
    /\ pc = "recorder"
    /\ best_santa = None
    /\ hk = "idle"
    /\ last = Quiet
    /\ det_run = 0

StartRecording ==
    /\ self.stop_pc = "idle"
    /\ self' = start_recording([self EXCEPT !.returned = <<>>, !.replayed = <<>>])
    /\ last' = LegacyNote("start_recording",
                          IF self.recording THEN "ignored" ELSE "started")
    /\ UNCHANGED <<pc, best_santa, hk, det_run>>

\* _on_key_press / _on_key_release up to "if not self.recording: return"
OnKeyEvent ==
    /\ self.keyboard_listener = "running"
    /\ self.key_callback = <<>>
    /\ Len(self.actions) < MaxActions
    /\ \E key \in TypedKeys, type \in {"key_press", "key_release"} :
        self' = IF self.recording
                THEN [self EXCEPT !.key_callback = <<type, key>>]
                ELSE self
    /\ last' = LegacyNote("key_callback", "tested")
    /\ UNCHANGED <<pc, best_santa, hk, det_run>>

\* the rest of the callback: F3 is skipped, any other key is appended
OnKeyAppend ==
    /\ self.key_callback # <<>>
    /\ LET s == [self EXCEPT !.key_callback = <<>>]
       IN self' = IF self.key_callback[2] = "f3" THEN s
                  ELSE Recorded(s, self.key_callback[1], self.key_callback[2],
                                "keyboard")
    /\ last' = LegacyNote("key_callback", "appended")
    /\ UNCHANGED <<pc, best_santa, hk, det_run>>

\* one round of _poll_mouse_state: the loop test, and a change of the left
\* button handed to _record_mouse_event
PollMouse ==
    /\ self.mouse_thread = "polling"
    /\ \/ /\ ~(self.mouse_thread_running /\ self.recording)
          /\ self' = [self EXCEPT !.mouse_thread = "ended"]
       \/ /\ self.mouse_thread_running /\ self.recording
          /\ Len(self.actions) < MaxActions
          /\ self' = [Recorded(self,
                               IF self.last_mouse_state THEN "key_release"
                               ELSE "key_press", "left", "mouse")
                        EXCEPT !.last_mouse_state = ~@]
    /\ last' = LegacyNote("mouse_thread", "none")
    /\ UNCHANGED <<pc, best_santa, hk, det_run>>

\* stop_recording, in four steps: the flags, the join and the listener,
\* the end marker, the copy that is returned
StopRecording ==
    /\ \/ /\ self.stop_pc = "idle"
          /\ self' = IF ~self.recording
                     THEN [self EXCEPT !.returned = <<>>, !.replayed = <<>>]
                     ELSE [self EXCEPT !.recording = FALSE,
                                       !.mouse_thread_running = FALSE,
                                       !.stop_pc = "join"]
          /\ last' = LegacyNote("stop_recording",
                                IF self.recording THEN "flags" ELSE "empty")
       \/ /\ self.stop_pc = "join"
          /\ self.mouse_thread # "polling"
          /\ self' = [self EXCEPT !.keyboard_listener = "none",
                                  !.stop_pc = "marker"]
          /\ last' = LegacyNote("stop_recording", "listener")
       \/ /\ self.stop_pc = "marker"
          /\ self' = [(IF self.start_time # NoTime
                       THEN Recorded(self, "end_marker", "none", "none")
                       ELSE self) EXCEPT !.stop_pc = "copy"]
          /\ last' = LegacyNote("stop_recording", "marker")
       \/ /\ self.stop_pc = "copy"
          /\ self' = [self EXCEPT !.returned = self.actions,
                                  !.stop_pc = "idle"]
          /\ last' = LegacyNote("stop_recording", "returned")
    /\ UNCHANGED <<pc, best_santa, hk, det_run>>

\* the player executes the actions of the returned recording
ReplayRecording ==
    /\ self.stop_pc = "idle"
    /\ ~self.recording
    /\ self.returned # <<>>
    /\ self.replayed = <<>>
    /\ self' = [self EXCEPT !.replayed =
                   [i \in 1..Len(self.returned) |-> _execute_action(self.returned[i])]]
    /\ last' = LegacyNote("replay", "none")
    /\ UNCHANGED <<pc, best_santa, hk, det_run>>

NextRecorder ==
    StartRecording \/ OnKeyEvent \/ OnKeyAppend \/ PollMouse \/ StopRecording
    \/ ReplayRecording

SpecRecorder == InitRecorder /\ [][NextRecorder]_vars

--------------------------------------------------------------------------
(* WebhookManager (webhook_manager.py): the rate limit of send_webhook.   *)
(* time.time() is a count of seconds that starts past the rate limit, as  *)
(* the epoch clock does; dispatched is when a sender thread was last      *)
(* started for an event type (never: the epoch), kept apart from          *)
(* last_sent.                                                             *)

rate_limit_seconds == 5
MaxWebhookClock == 11

\* two of the event types of the lifecycle calls
WebhookEvents == {"macro_started", "attack_completed"}

\* WebhookManager.__init__ with webhooks enabled, a URL and both events on
WebhookFields ==
    [ enabled |-> TRUE,
      webhook_url |-> "url",
      events |-> [e \in WebhookEvents |-> TRUE],
      last_sent |-> [e \in WebhookEvents |-> 0],
      now |-> rate_limit_seconds,
      dispatched |-> [e \in WebhookEvents |-> NoTime],
      call |-> [event_type |-> "none", started |-> FALSE, enabled |-> FALSE,
                since |-> 0] ]

\* WebhookManager.update_config
update_config(s, enabled, url, events) ==
    [s EXCEPT !.enabled = enabled, !.webhook_url = url, !.events = events]

\* WebhookManager.is_event_enabled
is_event_enabled(s, event_type) == s.enabled /\ s.events[event_type]

should_sendNoStamp(s, event_type) ==
    [ok |-> is_event_enabled(s, event_type)
             /\ ~(s.now - s.last_sent[event_type] < rate_limit_seconds),
     s |-> s]

\* WebhookManager.should_send: the answer and the manager afterwards
should_send(s, event_type) ==
    IF ~is_event_enabled(s, event_type) THEN [ok |-> FALSE, s |-> s]
    ELSE IF s.now - s.last_sent[event_type] < rate_limit_seconds
         THEN [ok |-> FALSE, s |-> s]
         ELSE [ok |-> TRUE,
               s |-> [s EXCEPT !.last_sent[event_type] = s.now]]

\* WebhookManager.send_webhook: the sender thread is started unless
\* should_send refuses or there is no URL
send_webhook(s, event_type) ==
    LET r == should_send(s, event_type)
        started == r.ok /\ r.s.webhook_url # ""
        noted == [r.s EXCEPT !.call =
                    [event_type |-> event_type, started |-> started,
                     enabled |-> s.enabled /\ s.events[event_type],
                     since |-> s.now - s.dispatched[event_type]]]
    IN  IF started THEN [noted EXCEPT !.dispatched[event_type] = s.now]
        ELSE noted

InitWebhook ==
    /\ self = WebhookFields
    /\ pc = "webhook"
    /\ best_santa = None
    /\ hk = "idle"
    /\ last = Quiet
    /\ det_run = 0

\* a lifecycle call (macro_started, attack_completed) reaches send_webhook
SendWebhook ==
    /\ \E event_type \in WebhookEvents : self' = send_webhook(self, event_type)
    /\ last' = LegacyNote("send_webhook", self'.call.event_type)
    /\ UNCHANGED <<pc, best_santa, hk, det_run>>

\* the settings window saves the configuration
UpdateConfig ==
    /\ \E enabled \in BOOLEAN, url \in {"", "url"},
          events \in [WebhookEvents -> BOOLEAN] :
          self' = update_config(self, enabled, url, events)
    /\ last' = LegacyNote("update_config", "none")
    /\ UNCHANGED <<pc, best_santa, hk, det_run>>

\* a second passes
WebhookClock ==
    /\ self.now < MaxWebhookClock
    /\ self' = [self EXCEPT !.now = @ + 1]
    /\ last' = LegacyNote("clock", "none")
    /\ UNCHANGED <<pc, best_santa, hk, det_run>>

SpecWebhook ==
    InitWebhook /\ [][SendWebhook \/ UpdateConfig \/ WebhookClock]_vars

--------------------------------------------------------------------------
(* arrow_lock and keys_lock (macro.py 329-330, two threading.Lock): the   *)
(* "with" blocks of the tick loop and of the hotkey listener thread.  A   *)
(* thread is outside every block, waits for a lock, or is inside a block; *)
(* inner is the number of nested "with self.keys_lock" blocks still to    *)
(* come inside the arrow_lock block it is in.                             *)

LockThreads == {"tick", "hotkey"}

\* the blocks of a thread and the numbers of keys_lock blocks nested in one
\* pass through each: the search hold (1970), the releases with a key held
\* or none (2106, 2148, 2161, 2241, 2545), the steering (2281-2320,
\* 2332-2368, 2397, 2412: none, a discard or an add, a discard and an add),
\* _force_release_all_arrows (505, then 508 on its own), the finally block
\* of run (3162), and the stop of the toggle and stop keys (1835, 1896)
LockSections(t) ==
    IF t = "hotkey" THEN { <<"handler", 1>> }
    ELSE { <<"search_hold", 1>>, <<"release", 0>>, <<"release", 1>>,
           <<"steer", 0>>, <<"steer", 1>>, <<"steer", 2>>,
           <<"force_release", 0>>, <<"finally", 1>> }

LockFields ==
    [ arrow_lock |-> "free",
      keys_lock |-> "free",
      at |-> [t \in LockThreads |-> [pos |-> "out", section |-> "none", inner |-> 0]] ]

UnwindKeepsLocks(s, t) == s

\* the __exit__ of the "with" blocks as an exception leaves them
Unwind(s, t) ==
    [s EXCEPT !.arrow_lock = IF @ = t THEN "free" ELSE @,
              !.keys_lock = IF @ = t THEN "free" ELSE @]

InitLocks ==
    /\ self = LockFields
    /\ pc = "locks"
    /\ best_santa = None
    /\ hk = "idle"
    /\ last = Quiet
    /\ det_run = 0

\* a thread reaches "with self.arrow_lock:"
EnterSection(t) ==
    /\ self.at[t].pos = "out"
    /\ \E sec \in LockSections(t) :
          self' = [self EXCEPT !.at[t] = [pos |-> "want_arrow",
                                         section |-> sec[1], inner |-> sec[2]]]
    /\ last' = LegacyNote("enter", t)
    /\ UNCHANGED <<pc, best_santa, hk, det_run>>

\* arrow_lock.acquire() returns
AcquireArrow(t) ==
    /\ self.at[t].pos = "want_arrow"
    /\ self.arrow_lock = "free"
    /\ self' = [self EXCEPT !.arrow_lock = t, !.at[t].pos = "in_arrow"]
    /\ last' = LegacyNote("acquire_arrow", t)
    /\ UNCHANGED <<pc, best_santa, hk, det_run>>

\* inside the arrow_lock block the thread reaches "with self.keys_lock:"
WantKeys(t) ==
    /\ self.at[t].pos = "in_arrow"
    /\ self.at[t].inner > 0
    /\ self' = [self EXCEPT !.at[t].pos = "want_keys"]
    /\ last' = LegacyNote("want_keys", t)
    /\ UNCHANGED <<pc, best_santa, hk, det_run>>

\* keys_lock.acquire() returns
AcquireKeys(t) ==
    /\ self.at[t].pos = "want_keys"
    /\ self.keys_lock = "free"
    /\ self' = [self EXCEPT !.keys_lock = t, !.at[t].pos = "in_keys"]
    /\ last' = LegacyNote("acquire_keys", t)
    /\ UNCHANGED <<pc, best_santa, hk, det_run>>

\* the end of a keys_lock block: back inside the arrow_lock block, or out
\* of _force_release_all_arrows
ReleaseKeys(t) ==
    /\ self.at[t].pos = "in_keys"
    /\ self' = [self EXCEPT
                  !.keys_lock = "free",
                  !.at[t] = IF self.arrow_lock = t
                            THEN [@ EXCEPT !.pos = "in_arrow", !.inner = @ - 1]
                            ELSE [pos |-> "out", section |-> "none", inner |-> 0]]
    /\ last' = LegacyNote("release_keys", t)
    /\ UNCHANGED <<pc, best_santa, hk, det_run>>

\* the end of an arrow_lock block; _force_release_all_arrows goes on to its
\* keys_lock block, run() ends after its finally block
ReleaseArrow(t) ==
    /\ self.at[t].pos = "in_arrow"
    /\ self.at[t].inner = 0
    /\ self' = [self EXCEPT
                  !.arrow_lock = "free",
                  !.at[t] = IF @.section = "force_release"
                            THEN [@ EXCEPT !.pos = "want_keys"]
                            ELSE IF @.section = "finally"
                            THEN [pos |-> "exited", section |-> "none", inner |-> 0]
                            ELSE [pos |-> "out", section |-> "none", inner |-> 0]]
    /\ last' = LegacyNote("release_arrow", t)
    /\ UNCHANGED <<pc, best_santa, hk, det_run>>

\* pydirectinput raises inside an arrow_lock block (outside its keys_lock
\* blocks, which hold set operations only): the handler catches it
\* (1844, 1905), in run() it reaches the finally block, whose own except
\* (3169) ends the cleanup
Raise(t) ==
    /\ self.at[t].pos = "in_arrow"
    /\ self.at[t].section # "force_release"
    /\ self' = [Unwind(self, t) EXCEPT
                  !.at[t] = IF t = "hotkey"
                            THEN [pos |-> "out", section |-> "none", inner |-> 0]
                            ELSE IF @.section = "finally"
                            THEN [pos |-> "exited", section |-> "none", inner |-> 0]
                            ELSE [pos |-> "want_arrow", section |-> "finally",
                                  inner |-> 1]]
    /\ last' = LegacyNote("raise", t)
    /\ UNCHANGED <<pc, best_santa, hk, det_run>>

\* a step of a thread that is past "with self.arrow_lock:"
LockStep(t) ==
    \/ AcquireArrow(t) \/ WantKeys(t) \/ AcquireKeys(t)
    \/ ReleaseKeys(t) \/ ReleaseArrow(t)

NextLocks == \E t \in LockThreads : EnterSection(t) \/ LockStep(t) \/ Raise(t)

SpecLocks == InitLocks /\ [][NextLocks]_vars

\* a thread inside a block runs on to its end, and a thread waiting for a
\* lock that is released again and again gets it
SpecLocksFair ==
    /\ SpecLocks
    /\ \A t \in LockThreads :
          /\ WF_vars(WantKeys(t) \/ ReleaseKeys(t) \/ ReleaseArrow(t))
          /\ SF_vars(AcquireArrow(t))
          /\ SF_vars(AcquireKeys(t))

--------------------------------------------------------------------------
(* Vocabulary of the properties.  A tick is one iteration of run(); its    *)
(* steps that can change attack_phase are the end of cooldown and the body.*)

SequencerSteps == {"cooldown_end", "body"}

\* the last step was one of a tick and it moved attack_phase from p to q
TickMoved(p, q) ==
    /\ last.step \in SequencerSteps
    /\ last.phase0 = p
    /\ self.attack_phase = q

\* the last step emitted <<kind, what>>
Emitted(kind, what) == \E i \in 1..Len(self.evts) : self.evts[i] = <<kind, what>>

\* the tick loop has just seen the run flag cleared at the top of an
\* iteration, the handler that cleared it has returned, no key since
IdleObserved ==
    /\ last.step = "gate" /\ last.branch = "idle"
    /\ hk = "idle"
    /\ ~self._running

--------------------------------------------------------------------------
(* C1 *)

\* C1: once the tick loop has seen the cleared run flag at the top of an
\* iteration and gone idle (the handler having returned), no arrow key is
\* held, in the bookkeeping or physically, and the player is not playing.
C1_StoppedMeansReleased ==
    IdleObserved =>
        /\ self.current_arrow_key = NoKey
        /\ self.keys_down = {}
        /\ ~self.player_playing

--------------------------------------------------------------------------
(* C2 *)

\* the arrow keys physically down after the first i events of a step that
\* began with the keys in held down
RECURSIVE HeldAfter(_, _, _)
HeldAfter(held, evts, i) ==
    IF i = 0 THEN held
    ELSE LET before == HeldAfter(held, evts, i - 1)
             e == evts[i]
         IN  IF e[1] = "keyDown" THEN before \cup {e[2]}
             ELSE IF e[1] \in {"keyUp", "nativeUp"} THEN before \ {e[2]}
             ELSE before

\* C2: the left and the right arrow key are never down together, at the
\* end of a step or at any point inside it: whenever an arrow key goes
\* down the other one has been released before.
C2_SteeringExclusive ==
    [][\A i \in 0..Len(self'.evts) :
          Cardinality(HeldAfter(self.keys_down, self'.evts, i)) <= 1]_vars

\* a step released the left arrow and then pressed the right one
C2_SwitchedDirection ==
    /\ self.keys_down = {"right"}
    /\ \E i, j \in 1..Len(self.evts) :
          /\ i < j
          /\ self.evts[i] = <<"keyUp", "left">>
          /\ self.evts[j] = <<"keyDown", "right">>

--------------------------------------------------------------------------
(* C3 *)

PhaseEdges ==
    { <<"idle", "load">>, <<"load", "fire">>, <<"fire", "cooldown">>,
      <<"cooldown", "load">>, <<"cooldown", "idle">> }

\* attack_phase just before the i-th event of the last step
RECURSIVE PhaseBefore(_)
PhaseBefore(i) ==
    IF i = 1 THEN last.phase0
    ELSE IF self.evts[i - 1][1] \in {"phase", "reset"} THEN self.evts[i - 1][2]
    ELSE PhaseBefore(i - 1)

\* C3: a tick assigns attack_phase only along idle -> load, load -> fire,
\* fire -> cooldown, cooldown -> load and cooldown -> idle; the only other
\* change of attack_phase is the toggle handler's reset to idle.
C3_PhaseOrder ==
    /\ \A i \in 1..Len(self.evts) :
          self.evts[i][1] = "phase" =>
              <<PhaseBefore(i), self.evts[i][2]>> \in PhaseEdges
    /\ (last.step # "other" /\ last.phase0 # self.attack_phase) =>
          \/ Emitted("phase", self.attack_phase)
          \/ Emitted("reset", self.attack_phase)

\* a tick took the phase from cooldown back to idle
C3_CooldownAborted == TickMoved("cooldown", "idle")

--------------------------------------------------------------------------
(* C4 *)

\* C4: attack_phase goes idle -> load only in a tick that has an accepted
\* detection and whose two preceding ticks each had one too (ticks cut
\* short because the macro is stopped are not counted as misses).
C4_ThreeInARow ==
    TickMoved("idle", "load") => det_run >= required_detections

--------------------------------------------------------------------------
(* C5 *)

\* the last step was the body of a tick with an accepted detection that
\* began in idle; _last_santa_center then holds the tick's target position
IdleDetectionTick ==
    /\ last.step = "body" /\ last.branch = "det"
    /\ last.phase0 = "idle"
    /\ self._last_santa_center # None

\* x is left of 25% or right of 75% of the view width
OutsideSafeZone(x) == 4 * x < roi_width \/ 4 * x > 3 * roi_width

\* the arrow key that turns the camera toward horizontal position x
Toward(x) == IF 2 * x < roi_width THEN "left" ELSE "right"

\* C5: a tick whose target is left of 25% or right of 75% of the view
\* width never takes attack_phase from idle to load and never starts the
\* attack sequence; when the detection count has reached 3 in such a tick,
\* the arrow key toward the target is held instead.
C5_SafeZoneGate ==
    (IdleDetectionTick /\ OutsideSafeZone(self._last_santa_center[1])) =>
        /\ self.attack_phase = "idle"
        /\ ~Emitted("player", "play")
        /\ self._consecutive_detections >= required_detections =>
              /\ self.current_arrow_key = Toward(self._last_santa_center[1])
              /\ self.keys_down = {Toward(self._last_santa_center[1])}

\* a third detection in a row, left of the safe zone: the camera turns left
C5_BlockedOnTheLeft ==
    /\ IdleDetectionTick
    /\ OutsideSafeZone(self._last_santa_center[1])
    /\ Toward(self._last_santa_center[1]) = "left"
    /\ self._consecutive_detections >= required_detections
    /\ det_run >= required_detections
    /\ Emitted("keyDown", "left")

--------------------------------------------------------------------------
(* C6 *)

\* the last step was the body of a tick that ran with the run flag set
RunningBody == last.step = "body" /\ last.branch \in {"det", "grace", "expired"}

\* C6: a tick that finds attack_phase = load with load_ms elapsed moves it
\* to fire, whether the tick has a detection, is inside the grace window
\* or after it.
C6_LoadEnds ==
    (RunningBody /\ last.phase0 = "load" /\ last.elapsed0 >= _get_load_duration) =>
        self.attack_phase # "load"

--------------------------------------------------------------------------
(* C7 *)

\* C7: when a tick takes attack_phase from fire to cooldown the attack
\* sequence player is not playing afterwards.
C7_CooldownStopsPlayer ==
    TickMoved("fire", "cooldown") => ~self.player_playing

--------------------------------------------------------------------------
(* C8 *)

\* C8: the player is started only by a step that assigns load to
\* attack_phase.
C8_StartOnlyAtLoadEntry ==
    Emitted("player", "play") => Emitted("phase", "load")

--------------------------------------------------------------------------
(* C9 *)

\* the last step was the body of a tick without a detection that began in
\* load or fire
BlindAttackTick ==
    /\ last.step = "body" /\ last.branch \in {"grace", "expired", "stopped"}
    /\ last.phase0 \in {"load", "fire"}

\* C9: a tick without a detection that begins in load or fire does not
\* take attack_phase to idle and does not start the camera search.
C9_NoSearchWhileAttacking ==
    BlindAttackTick =>
        /\ self.attack_phase # "idle"
        /\ self.search_state = "idle"
        /\ ~Emitted("keyDown", "left") /\ ~Emitted("keyDown", "right")

\* the grace window is over, the phase is fire and stays fire
C9_BlindInFire ==
    /\ BlindAttackTick
    /\ last.branch = "expired"
    /\ last.phase0 = "fire" /\ self.attack_phase = "fire"

--------------------------------------------------------------------------
(* C10 *)

\* the last step was the end-of-cooldown step of a tick with a detection
\* that found cooldown_ms elapsed; best_santa is still the tick's box
CooldownOver ==
    /\ last.step = "cooldown_end" /\ last.branch = "det"
    /\ last.phase0 = "cooldown"
    /\ last.elapsed0 >= _get_cooldown_duration

\* x is left of 20% or right of 80% of the view width
OutsideAbortBand(x) == 5 * x < roi_width \/ 5 * x > 4 * roi_width

\* C10: when cooldown_ms has elapsed and the tick has a detection, the
\* phase becomes idle if the target is outside 20%..80% of the view width
\* and load if it is inside; in both cases the key '1' is pressed before
\* attack_phase is assigned.
C10_CooldownAbort ==
    CooldownOver =>
        LET santa_cx == best_santa[1] + (best_santa[3] - best_santa[1]) \div 2
        IN  /\ OutsideAbortBand(santa_cx) => self.attack_phase = "idle"
            /\ ~OutsideAbortBand(santa_cx) => self.attack_phase = "load"
            /\ \E i, j \in 1..Len(self.evts) :
                  /\ i < j
                  /\ self.evts[i] = <<"press", "1">>
                  /\ self.evts[j] = <<"phase", self.attack_phase>>
                  /\ \A k \in 1..(i - 1) : self.evts[k][1] # "phase"

\* cooldown is over and the target is at the edge: back to idle
C10_AbortedAtTheEdge ==
    /\ CooldownOver
    /\ self.attack_phase = "idle"
    /\ Emitted("press", "1")

--------------------------------------------------------------------------
(* C11 *)

\* the end-of-cooldown step of this tick has just aborted the cycle
\* (cooldown -> idle) and the body of the same tick comes next
AbortedThisTick ==
    /\ last.step = "cooldown_end"
    /\ last.phase0 = "cooldown"
    /\ self.attack_phase = "idle"
    /\ pc = "body"

\* C11: at the end of the tick in which the cycle aborts from cooldown to
\* idle, search_state is searching_left, so that the next tick holds the
\* left arrow to search.
C11_AbortForcesSearch ==
    [][(AbortedThisTick /\ pc' = "loop") => self'.search_state = "searching_left"]_vars

--------------------------------------------------------------------------
(* C12 *)

\* C12: a tick of the running loop that finds attack_phase = cooldown with
\* cooldown_ms elapsed does not end in cooldown, whether or not it has a
\* detection.
C12_CooldownEnds ==
    (RunningBody /\ last.phase0 = "cooldown"
                 /\ last.elapsed0 >= _get_cooldown_duration) =>
        self.attack_phase # "cooldown"

--------------------------------------------------------------------------
(* C13 *)

\* C13: the body of every tick of the running loop that begins and ends in
\* cooldown presses the interact key 'e', with a detection, inside the
\* grace window and after it.
C13_InteractThroughoutCooldown ==
    (RunningBody /\ last.phase0 = "cooldown" /\ self.attack_phase = "cooldown") =>
        Emitted("press", "e")

--------------------------------------------------------------------------
(* C14 *)

\* C14: while the loop runs, a forced release of both arrow keys comes
\* round: counting from an iteration that made one, cleanup_interval
\* further iterations of the running loop never complete without another,
\* whatever those iterations do.
C14_SweepComesRound ==
    self.iterations_since_cleanup <= CleanupInterval

--------------------------------------------------------------------------
(* C15 *)

\* the last step was the body of a tick with a detection that began in load
DetectionTickInLoad ==
    /\ last.step = "body" /\ last.branch = "det"
    /\ last.phase0 = "load"

\* C15: a tick with a detection that finds attack_phase = load moves it to
\* fire exactly when the wall-clock time since load was entered has
\* reached load_ms, however many ticks were made in that time (the clock
\* advances by 0 or more between two ticks).
C15_LoadEndsOnTheClock ==
    DetectionTickInLoad =>
        (self.attack_phase = "fire" <=> last.elapsed0 >= _get_load_duration)

\* detections on every tick, and load ends in the tick that finds load_ms
\* elapsed
C15_FiredOnTime ==
    /\ DetectionTickInLoad
    /\ det_run >= required_detections
    /\ last.elapsed0 >= _get_load_duration
    /\ Emitted("phase", "fire")

--------------------------------------------------------------------------
(* C16 *)

\* the phase and detection state of the fields s (_last_detection_frame is
\* seen through frames_since_detection)
DetectionState(s) ==
    <<s.attack_phase, s.attack_committed, s._consecutive_detections,
      s.frames_since_detection, s._last_santa_center,
      s._detection_movement_history, s.search_state>>

\* C16: a step of the hotkey handler (toggle, start or stop key) leaves
\* the phase and detection state as it found it.
C16_HandlerKeepsDetectionState ==
    [][last'.step = "hotkey" => DetectionState(self') = DetectionState(self)]_vars

--------------------------------------------------------------------------
(* C18 *)

\* the last step was a key operation of the tick loop that raised
SinkFailed == last.step = "fault" /\ last.branch \in {"search_hold", "sweep"}

\* C18: when a key operation of the tick loop raises, run() does not end,
\* and the held-key bookkeeping is what it would have been had the
\* operation succeeded: left held after the search hold, nothing held
\* after the forced release.
C18_SinkFailureNotFatal ==
    SinkFailed =>
        /\ pc # "exited"
        /\ last.branch = "search_hold" =>
              self.current_arrow_key = "left" /\ self.is_holding_arrow
        /\ last.branch = "sweep" =>
              self.current_arrow_key = NoKey /\ ~self.is_holding_arrow

--------------------------------------------------------------------------
(* C19 *)

DetectorFailed == last.step = "fault" /\ last.branch = "detector"

\* C19: when the detector call raises, run() catches it inside the
\* iteration: the iteration goes on at the stop check with no candidate and
\* nothing sent to the input sink, and its next step is that of a tick
\* without a detection.
C19_DetectorFailureNotFatal ==
    [][/\ DetectorFailed' =>
             pc' = "stopcheck" /\ best_santa' = None /\ self'.evts = <<>>
       /\ (DetectorFailed /\ pc' # pc) =>
             /\ pc' \in {"body", "loop"}
             /\ last'.branch \in {"miss", "stopped"}]_vars

\* the detector raised in an iteration that began in fire; the iteration is
\* at its stop check
C19_FailedWhileFiring ==
    /\ DetectorFailed
    /\ self._running
    /\ self.attack_phase = "fire"
    /\ pc = "stopcheck"

--------------------------------------------------------------------------
(* C20 *)

\* run() has just left because the frame grab raised
CaptureFailed ==
    /\ last.step = "fault"
    /\ last.branch \in {"capture", "capture_key_down"}

--------------------------------------------------------------------------
(* Vocabulary of the learner properties.                                   *)

RECURSIVE SizesOf(_)
SizesOf(samples) ==
    IF samples = <<>> THEN <<>>
    ELSE <<SizeOf(Head(samples)[2])>> \o SizesOf(Tail(samples))

ObservedSizes == SizesOf(self._learning_samples)

\* the stream fed so far meets the commit conditions at the time of the
\* call that is being made
MeetsCommitConditions ==
    /\ Len(self._learning_samples) >= min_required_samples
    /\ self._learning_continuous_start # NoTime
    /\ self'.now - self._learning_continuous_start >= min_continuous
    /\ ~UnrealisticSpeed(self._santa_profile.avg_speed)

CommitsCoveringProfile ==
    /\ self'._locked_santa
    /\ self'._santa_profile.size_min <= SeqMin(ObservedSizes)
    /\ self'._santa_profile.size_max >= SeqMax(ObservedSizes)

--------------------------------------------------------------------------
(* C21  Learning commit: every sample of a learning stream is ingested     *)
(* without an exception, and finalizing a stream that meets the commit     *)
(* conditions (enough accepted samples, enough continuous tracking, a      *)
(* realistic average speed) sets the locked flag and leaves a profile      *)
(* whose size_min is at most the smallest observed size and whose size_max *)
(* is at least the largest observed size.                                  *)
C21_LearningCommit ==
    [][/\ last'.step = "sample" => self'.error = "none"
       /\ (last'.step = "finalize" /\ MeetsCommitConditions)
              => CommitsCoveringProfile]_vars

--------------------------------------------------------------------------
(* C22  Profile invariant: a committed profile has size_min <= size_max    *)
(* and both values within [min_santa_size, max_santa_size].                *)
C22_ProfileInvariant ==
    self._locked_santa =>
        /\ self._santa_profile.size_min <= self._santa_profile.size_max
        /\ self._santa_profile.size_min \in min_santa_size..max_santa_size
        /\ self._santa_profile.size_max \in min_santa_size..max_santa_size


--------------------------------------------------------------------------
(* Vocabulary of the validator properties: the call that was made.         *)

Validated == self.verdict # "none"

CalledSize == SizeOf(self.call.bbox)

\* the square of the distance of the candidate's centre from the last one
CalledJump2 ==
    LET c == CenterOf(self.call.bbox)
    IN (c[1] - self._last_santa_center[1]) * (c[1] - self._last_santa_center[1])
       + (c[2] - self._last_santa_center[2]) * (c[2] - self._last_santa_center[2])

\* three ticks at the average speed, numerator and denominator in px
ExpectedJumpNum == 3 * self._santa_profile.avg_speed.dist
ExpectedJumpDen == self._santa_profile.avg_speed.time * self.tick_hz

BeyondJumpLimit ==
    /\ CalledJump2 > position_jump_threshold * position_jump_threshold
    /\ CalledJump2 * ExpectedJumpDen * ExpectedJumpDen
           > ExpectedJumpNum * ExpectedJumpNum

SizeInRange ==
    /\ CalledSize >= self._santa_profile.size_min
    /\ CalledSize <= self._santa_profile.size_max

--------------------------------------------------------------------------
(* C25  Validation by size: with a locked profile, a candidate whose       *)
(* max(w, h) is below size_min or above size_max is rejected, wherever it  *)
(* is and whatever its colour.                                             *)
C25_SizeAlwaysRejects ==
    (Validated /\ self._locked_santa /\ ~SizeInRange) => self.verdict # "valid"

\* an undersized candidate on the last centre, colours matching
C25_SmallOnTheSpotRejected ==
    /\ Validated
    /\ CalledSize < self._santa_profile.size_min
    /\ self._last_santa_center # None
    /\ CalledJump2 = 0
    /\ self.call.colour = "match"
    /\ self.verdict = "size"

--------------------------------------------------------------------------
(* C26  Jump-distance gating: with a locked profile and a known last       *)
(* centre, a candidate farther from it than                                *)
(* max(position_jump_threshold, avg_speed * tick_interval * 3) is          *)
(* rejected, and a candidate at distance 0 whose size is in range is       *)
(* accepted unless the colour signature rejects it.                        *)
C26_JumpGating ==
    (Validated /\ self._locked_santa /\ self._last_santa_center # None) =>
        /\ BeyondJumpLimit => self.verdict # "valid"
        /\ (CalledJump2 = 0 /\ SizeInRange) =>
               self.verdict \in {"valid", "colour"}
        /\ (CalledJump2 = 0 /\ SizeInRange /\ self.verdict = "colour") =>
               /\ self._santa_profile.color_signature # None
               /\ self.call.colour = "mismatch"

\* a candidate of the right size between the fixed threshold and a larger
\* expected jump is let through, one past the expected jump is not
C26_RejectedPastExpectedJump ==
    /\ Validated
    /\ self._last_santa_center # None
    /\ SizeInRange
    /\ ExpectedJumpNum > position_jump_threshold * ExpectedJumpDen
    /\ BeyondJumpLimit
    /\ self.verdict = "jump"


--------------------------------------------------------------------------
(* C23  Rejection ceiling: while locked, a tick whose candidate is invalid *)
(* or absent raises the rejection counter by one (or drops the lock); a    *)
(* tick that leaves the counter below the ceiling hands on the predicted   *)
(* position when there is one; a counter above the ceiling does not        *)
(* survive a tick with the lock still held; and no such tick ends the      *)
(* loop with the lock held.                                                *)
C23_RejectionCeiling ==
    [][(last'.step = "locked_tick" /\ self'.candidate \in {"invalid", "absent"})
         => /\ \/ self'._rejected_detections_count
                    = self._rejected_detections_count + 1
               \/ ~self'._locked_santa
            /\ self'.error = "none"
            /\ (/\ self'._locked_santa
                /\ self'._predicted_position # None
                /\ self'._rejected_detections_count < invalid_prediction_ceiling)
                  => self'.det = PredictedDetection(self', self'.det.confidence)
            /\ self'._rejected_detections_count > lost_ceiling
                  => ~self'._locked_santa]_vars


--------------------------------------------------------------------------
(* C24  Stuck-lock release: an update that is the tenth in a row to come   *)
(* less than 10 px from the previous box, or that comes that close more    *)
(* than the movement timeout after the last movement of 10 px or more,     *)
(* leaves the lock released for being stuck or still, with the locked flag *)
(* false and the box history and the stuck counter cleared; and the box    *)
(* history never holds more than 5 entries.                                *)
C24_StuckLockReleased ==
    /\ Len(self._santa_bbox_history) <= 5
    /\ (/\ last.step = "update_lock"
        /\ \/ self.close_updates >= 10
           \/ /\ last.branch = "close"
              /\ self.now - self.moved_ts > 2)
         => /\ ~self._locked_on_santa
            /\ self._santa_bbox_history = <<>>
            /\ self._stuck_counter = 0
            /\ self.release_reason \in {"stuck", "no_movement"}

\* ten updates in a row that drifted less than 10 px, within the timeout
C24_ReleasedAsStuck ==
    /\ last.step = "update_lock"
    /\ self.close_updates = 10
    /\ self.now - self.moved_ts <= 2
    /\ ~self._locked_on_santa
    /\ self.release_reason = "stuck"


--------------------------------------------------------------------------
(* C27  A shutdown request is never lost: once the state is SHUTDOWN no    *)
(* step of the tick loop changes it, and the step the loop takes at its    *)
(* loop test is the exit through the final cleanup, with no arrow key left *)
(* down.                                                                   *)
C27_ShutdownNeverLost ==
    [][(self.state = "shutdown" /\ last'.step # "hotkey")
         => /\ self'.state = "shutdown"
            /\ pc = "loop" => /\ pc' = "exited"
                              /\ self'.keys_down = {}]_vars


--------------------------------------------------------------------------
(* Vocabulary of the player properties.                                    *)

AliveThreads == {t \in 1..MaxThreads : is_alive(self, t)}

\* the step just taken sent a key or button event
PlayerEvent == last.step = "thread" /\ self.event_by # NoThread

--------------------------------------------------------------------------
(* C28  At most one playback thread is alive at any time.                  *)
C28_OnePlaybackThread == Cardinality(AliveThreads) <= 1

--------------------------------------------------------------------------
(* C29  stop_playback is effective: from its return to the next            *)
(* play_sequence call no key or button event is sent and the playing flag  *)
(* is false, and a playback that was alive when stop_playback returned     *)
(* sends no event later either.                                            *)
C29_StopIsEffective ==
    /\ self.stopped => ~self.playing /\ ~PlayerEvent
    /\ PlayerEvent => ~self.threads[self.event_by].revoked

--------------------------------------------------------------------------
(* C30  The player leaves no key held: a playback thread that has ended    *)
(* has released every key it pressed.                                      *)
C30_NoKeyLeftHeld ==
    \A t \in 1..MaxThreads :
        self.threads[t].pc = "done" => self.threads[t].pressed = {}


--------------------------------------------------------------------------
(* Vocabulary of C31: the playback thread that took the step, and what     *)
(* the step was.                                                           *)

Stepped(t) == self.threads[t].pc # self'.threads[t].pc

\* the step executed the next stored event
PlayedStoredEvent(t) ==
    LET a == RecordedActions[self.threads[t].i]
    IN /\ self'.event = <<ReplayedAs(a.key), a.type = "key_press">>
       /\ self'.threads[t].i = self.threads[t].i + 1

MacroEvent == self'.event # <<>> /\ self'.event[1].key \in {"3", "e"}

NewPass(t) == self.threads[t].pc = "tail" /\ self'.threads[t].pc = "check"

--------------------------------------------------------------------------
(* C31  Playback order and looping: a playback thread executes the stored  *)
(* events in list order, each after its sleep; without loop it sends no    *)
(* event of the cooldown macro and begins no second pass; with loop a new  *)
(* pass begins only after the cooldown macro has pressed '3', spammed 'e'  *)
(* and pressed '3' again.                                                  *)
C31_OrderAndLooping ==
    [][last'.step = "thread" =>
         \A t \in 1..MaxThreads :
            Stepped(t) =>
               /\ self.threads[t].pc = "sleep" => PlayedStoredEvent(t)
               /\ self.threads[t].pc # "sleep" /\ self'.event # <<>>
                      => MacroEvent /\ self.threads[t].loop
               /\ NewPass(t) => self.threads[t].loop /\ self.threads[t].closed]_vars


--------------------------------------------------------------------------
(* C32  Record/replay round trip: every press or release of the recording  *)
(* is replayed on the device and key it was recorded from.                 *)
C32_RoundTrip ==
    (last.step = "replay") =>
        \A i \in 1..Len(self.replayed) :
            self.returned[i].type # "end_marker" =>
                /\ self.replayed[i][1] = self.origins[i]
                /\ self.replayed[i][2] = (self.returned[i].type = "key_press")

--------------------------------------------------------------------------
(* C33  The list that stop_recording returns holds exactly one end_marker, *)
(* as its last element; stop_recording while not recording returns an      *)
(* empty list and stores no end_marker; start_recording while recording    *)
(* keeps what was recorded.                                                *)
C33_OneEndMarkerLast ==
    [][/\ (last'.step = "stop_recording" /\ last'.branch = "returned")
            => /\ self'.returned # <<>>
               /\ \A i \in 1..Len(self'.returned) :
                     self'.returned[i].type = "end_marker"
                         <=> i = Len(self'.returned)
       /\ (last'.step = "stop_recording" /\ last'.branch = "empty")
            => self'.returned = <<>> /\ self'.actions = self.actions
       /\ (last'.step = "start_recording" /\ last'.branch = "ignored")
            => self'.actions = self.actions]_vars


\* ---------------------------------------------------------------------
\* C34  A static target never starts an attack: no step takes
\* attack_phase from idle to load while every position accepted into the
\* movement history since it was last cleared (nothing popped yet) lies
\* within _min_movement_pixels of the others in both axes.
C34_StaticNeverAttacked ==
    [][ ( /\ self.attack_phase = "idle"
          /\ self'.attack_phase = "load"
          /\ Len(self._detection_movement_history) > 0
          /\ Len(self._detection_movement_history) < MaxMovementHistory )
        => TotalMovement(self._detection_movement_history)
               >= _min_movement_pixels ]_vars

\* ---------------------------------------------------------------------
\* C35  Whenever the macro is stopped (run flag false and no hotkey
\* handler executing), attack_phase is idle.
C35_StoppedMeansIdlePhase ==
    (~self._running /\ hk = "idle") => self.attack_phase = "idle"

\* ---------------------------------------------------------------------
\* C36  Search and attack exclude each other: at every tick boundary on
\* which the camera search is active, attack_phase is idle.
\* The search is never started into a phase of load, fire or cooldown, and
\* the phase never leaves idle with the search still active.
C36_SearchExcludesAttack ==
    /\ []( (pc = "loop" /\ self.search_state = "searching_left")
              => self.attack_phase = "idle" )
    /\ [][ (self.search_state = "idle" /\ self'.search_state = "searching_left")
              => self'.attack_phase = "idle" ]_vars
    /\ [][ (self.attack_phase = "idle" /\ self'.attack_phase # "idle")
              => self'.search_state = "idle" ]_vars

\* a tick has ended with the camera search on and the left arrow held
C36_SearchingAtTickEnd ==
    /\ pc = "loop"
    /\ self.search_state = "searching_left"
    /\ self._running
    /\ self.current_arrow_key = "left"

\* ---------------------------------------------------------------------
\* C40  Held-key bookkeeping is consistent at the start of every tick-loop
\* iteration at which no hotkey handler is executing: is_holding_arrow is
\* true exactly when current_arrow_key is set, camera_keys_pressed is empty
\* or holds just that key, and the arrows physically down are just that key.
C40_HeldKeyBookkeeping ==
    (pc = "loop" /\ hk = "idle") =>
        LET held == IF self.current_arrow_key = NoKey
                    THEN {} ELSE {self.current_arrow_key}
        IN  /\ self.is_holding_arrow <=> (self.current_arrow_key # NoKey)
            /\ self.camera_keys_pressed = held
            /\ self.keys_down \cap {"left", "right"} = held

\* a tick has ended with the right arrow held to follow the target and
\* recorded as held, no handler executing
C40_RightArrowHeldAndRecorded ==
    /\ pc = "loop" /\ hk = "idle"
    /\ self.current_arrow_key = "right"
    /\ self.is_holding_arrow
    /\ self.camera_keys_pressed = {"right"}
    /\ "right" \in self.keys_down

\* ---------------------------------------------------------------------
\* C39  The attack-completed notification carries the attack's duration:
\* a step that emits attack_completed leaves the fire phase, and the
\* duration it reports is the time elapsed since the fire phase started,
\* which is the fire duration or more.
C39_CompletedCarriesFireDuration ==
    [][ \A i \in 1..Len(self'.evts) :
          self'.evts[i][1] = "attack_completed" =>
              /\ self.attack_phase = "fire"
              /\ self'.evts[i][2] = self.phase_elapsed
              /\ self'.evts[i][2] >= _get_fire_duration ]_vars

\* ---------------------------------------------------------------------
\* C38  Webhook rate limit: a notification that send_webhook dispatches
\* comes rate_limit_seconds or more after the previous dispatched one of
\* the same event type, and its event type was enabled, with webhooks
\* enabled, when the call was made.
C38_RateLimited ==
    self.call.started =>
        /\ self.call.since >= rate_limit_seconds
        /\ self.call.enabled

\* a second notification of one type has been dispatched, after an
\* earlier call of that type was refused inside the limit
C38_SecondDispatchAfterLimit ==
    /\ self.call.started
    /\ self.call.since = rate_limit_seconds
    /\ self.now = 2 * rate_limit_seconds
    /\ last.step = "send_webhook"

\* ---------------------------------------------------------------------
\* C37 vocabulary
Waiting(t) == self.at[t].pos \in {"want_arrow", "want_keys"}

WaitsFor(t, u) ==
    \/ self.at[t].pos = "want_arrow" /\ self.arrow_lock = u
    \/ self.at[t].pos = "want_keys" /\ self.keys_lock = u

\* C37  No deadlock between the tick loop and the hotkey thread: no thread
\* asks for arrow_lock while it holds keys_lock, no thread waits for a lock
\* it holds itself, the two threads never wait for each other, a thread
\* outside every block holds no lock, every wait ends and every lock that
\* is held is released.
C37_NoDeadlock ==
    /\ [](\A t \in LockThreads :
            /\ ~(self.keys_lock = t /\ self.at[t].pos = "want_arrow")
            /\ ~WaitsFor(t, t)
            /\ self.at[t].pos \in {"out", "exited"} =>
                   (self.arrow_lock # t /\ self.keys_lock # t))
    /\ [](~(WaitsFor("tick", "hotkey") /\ WaitsFor("hotkey", "tick")))
    /\ \A t \in LockThreads : Waiting(t) ~> ~Waiting(t)
    /\ (self.arrow_lock # "free") ~> (self.arrow_lock = "free")
    /\ (self.keys_lock # "free") ~> (self.keys_lock = "free")

\* the handler waits for arrow_lock while the tick loop is inside a nested
\* keys_lock block
C37_HandlerWaitsOnTick ==
    /\ WaitsFor("hotkey", "tick")
    /\ self.keys_lock = "tick"
    /\ self.arrow_lock = "tick"

====
